---------------------------- MODULE Spec2Model ----------------------------
(***************************************************************************)
(* Model of agentic_crew's universal local CLI runner                      *)
(* (packages/agentic-crew/src/agentic_crew/runners/local_cli_runner.py):   *)
(* the profile cache, the command builder and the process invoker.         *)
(*                                                                         *)
(* Python values are modelled as follows.                                  *)
(*   - str | None   : a TLA+ string, None being the reserved string NoneV. *)
(*   - the base command string (the only string that is tokenised) is a    *)
(*     sequence of one-character strings, so that shlex.split can be       *)
(*     computed character by character.                                    *)
(*   - list[str]    : a sequence of strings.                               *)
(*   - an f-string  : the sequence of its fragments (literal pieces and    *)
(*     interpolated values); sep.join(xs) is xs with sep between items.    *)
(*   - Optional objects (the cache, the runner) are records with a "some"  *)
(*     field.                                                              *)
(***************************************************************************)
EXTENDS Integers, Sequences, FiniteSets, TLC

(***************************************************************************)
(* Bounds of the model.                                                    *)
(***************************************************************************)
\* longest additional_flags list enumerated for a profile
MaxFlags == 2
\* longest auth_env list enumerated for a profile
MaxAuthEnv == 2

(***************************************************************************)
(* Python helpers.                                                         *)
(***************************************************************************)
NoneV == "<None>"

\* truthiness of a str | None value: None and "" are falsy
Truthy(s) == s # NoneV /\ s # ""

\* `a or b` on str | None values
PyOr(a, b) == IF Truthy(a) THEN a ELSE b

RECURSIVE Join(_, _)
\* sep.join(xs), as the sequence of its fragments
Join(sep, xs) ==
    IF Len(xs) = 0 THEN << >>
    ELSE IF Len(xs) = 1 THEN << xs[1] >>
    ELSE << xs[1], sep >> \o Join(sep, Tail(xs))

RECURSIVE Concat(_)
\* the string spelled by a sequence of one-character strings
Concat(cs) == IF Len(cs) = 0 THEN "" ELSE Head(cs) \o Concat(Tail(cs))

\* xs is a contiguous part of ys
Contains(ys, xs) ==
    \E i \in 0..(Len(ys) - Len(xs)) : SubSeq(ys, i + 1, i + Len(xs)) = xs

(***************************************************************************)
(* shlex.split(s) in POSIX mode (whitespace_split, no commenters):         *)
(* whitespace separates tokens, ' and " quote, \ escapes (inside " only    *)
(* before " or \).  An unterminated quote or a trailing escape raises      *)
(* ValueError.                                                             *)
(***************************************************************************)
Whitespace == {" "}
Quotes == {"'", "\""}
Escape == {"\\"}
EscapedQuotes == {"\""}

\* the scanner's verdict on end of input
ShlexEnd(st, tok, quoted, out) ==
    IF st \in Quotes \/ st \in Escape
    THEN [ok |-> FALSE, tokens |-> << >>]
    ELSE [ok |-> TRUE,
          tokens |-> IF tok # "" \/ quoted THEN Append(out, tok) ELSE out]

RECURSIVE ShlexScan(_, _, _, _, _, _, _)
\* st is shlex's state: " " between tokens, "a" in a word, a quote character
\* inside quotes, the escape character after a backslash (esc: state to return to)
ShlexScan(s, i, st, esc, tok, quoted, out) ==
    IF i > Len(s) THEN ShlexEnd(st, tok, quoted, out)
    ELSE LET c == s[i] IN
      IF st \in Quotes THEN
          IF c = st THEN ShlexScan(s, i + 1, "a", esc, tok, TRUE, out)
          ELSE IF c \in Escape /\ st \in EscapedQuotes
               THEN ShlexScan(s, i + 1, c, st, tok, TRUE, out)
          ELSE ShlexScan(s, i + 1, st, esc, tok \o c, TRUE, out)
      ELSE IF st \in Escape THEN
          LET kept == IF esc \in Quotes /\ c # st /\ c # esc
                      THEN tok \o st ELSE tok
          IN ShlexScan(s, i + 1, esc, esc, kept \o c, quoted, out)
      ELSE \* st is " " or "a"
          IF c \in Whitespace THEN
              IF tok # "" \/ quoted
              THEN ShlexScan(s, i + 1, " ", esc, "", FALSE, Append(out, tok))
              ELSE ShlexScan(s, i + 1, " ", esc, tok, quoted, out)
          ELSE IF c \in Quotes THEN ShlexScan(s, i + 1, c, esc, tok, quoted, out)
          ELSE IF c \in Escape THEN ShlexScan(s, i + 1, c, "a", tok, quoted, out)
          ELSE ShlexScan(s, i + 1, "a", esc, tok \o c, quoted, out)

\* shlex.split(command): [ok, tokens]; ok = FALSE stands for ValueError
ShlexSplit(s) == ShlexScan(s, 1, " ", " ", "", FALSE, << >>)


(***************************************************************************)
(* LocalCLIConfig.  The descriptive metadata other than name (description, *)
(* install_cmd, docs_url, notes) is never read by the runner and is left   *)
(* out of the record.                                                      *)
(***************************************************************************)
DefaultTimeout == 300

\* LocalCLIConfig(command=..., task_flag=...) with every other field at its default
LocalCLIConfig(command, task_flag) ==
    [command |-> command, task_flag |-> task_flag, subcommand |-> NoneV,
     auth_env |-> << >>, auto_approve |-> NoneV, structured_output |-> NoneV,
     model_flag |-> NoneV, default_model |-> NoneV, working_dir_flag |-> NoneV,
     additional_flags |-> << >>, timeout |-> DefaultTimeout, name |-> ""]

\* base command strings, character by character
CmdAider == << "a", "i", "d", "e", "r" >>
CmdTwoWords == << "p", "y", " ", "-", "m" >>
CmdQuoted == << "'", "m", "y", " ", "t", "'" >>
CmdUnbalanced == << "t", " ", "\"" >>
Commands == {CmdAider, CmdTwoWords, CmdQuoted, CmdUnbalanced}

\* all sequences over S of length at most n
SeqsUpTo(S, n) == UNION {[1..k -> S] : k \in 0..n}

EnvNames == {"OPENAI_API_KEY", "TEST_API_KEY"}
\* a variable no profile asks for
OtherEnvName == "HOME"
FlagPool == {"--no-git", "--yes"}

(***************************************************************************)
(* _build_command, step by step (each step returns the list after it).     *)
(***************************************************************************)
\* cmd = shlex.split(self.config.command)
BaseCommand(config) == ShlexSplit(config.command)

\* if self.config.subcommand: cmd.append(...)
AddSubcommand(config, cmd) ==
    IF Truthy(config.subcommand) THEN Append(cmd, config.subcommand) ELSE cmd

\* a builder that falls back to the default model whatever the model_flag
AddModelDefaultAlways(config, cmd, model) ==
    IF Truthy(model)
    THEN IF Truthy(config.model_flag)
         THEN cmd \o << config.model_flag, model >>
         ELSE Append(cmd, model)
    ELSE IF Truthy(config.default_model)
         THEN Append(cmd, config.default_model)
         ELSE cmd

\* the model: by flag, positional, or the positional default
AddModel(config, cmd, model) ==
    IF Truthy(model)
    THEN IF Truthy(config.model_flag)
         THEN cmd \o << config.model_flag, model >>
         ELSE Append(cmd, model)
    ELSE IF Truthy(config.default_model) /\ ~Truthy(config.model_flag)
         THEN Append(cmd, config.default_model)
         ELSE cmd

\* a builder that passes the task by flag whatever the task_flag
AddTaskAlwaysFlag(config, cmd, task) == cmd \o << config.task_flag, task >>

\* the task: [task_flag, task] or positional
AddTask(config, cmd, task) ==
    IF config.task_flag # ""
    THEN cmd \o << config.task_flag, task >>
    ELSE Append(cmd, task)

\* a builder that ignores what the caller asked for
AddAutoApproveAlways(config, cmd, auto_approve) ==
    IF Truthy(config.auto_approve)
    THEN Append(cmd, config.auto_approve) ELSE cmd

AddAutoApprove(config, cmd, auto_approve) ==
    IF auto_approve /\ Truthy(config.auto_approve)
    THEN Append(cmd, config.auto_approve) ELSE cmd

AddStructuredOutput(config, cmd, structured_output) ==
    IF structured_output /\ Truthy(config.structured_output)
    THEN Append(cmd, config.structured_output) ELSE cmd

AddWorkingDir(config, cmd, working_dir) ==
    IF Truthy(working_dir) /\ Truthy(config.working_dir_flag)
    THEN cmd \o << config.working_dir_flag, working_dir >> ELSE cmd

\* a builder that appends the additional flags twice
AddAdditionalFlagsTwice(config, cmd) ==
    cmd \o config.additional_flags \o config.additional_flags

\* cmd.extend(self.config.additional_flags)
AddAdditionalFlags(config, cmd) == cmd \o config.additional_flags

\* a builder that extends the profile's own additional_flags list in place
ConfigAfterBuildAliased(config, cmd) == [config EXCEPT !.additional_flags = cmd]

\* the config object after _build_command has run: every list the builder
\* extends is the fresh list made by shlex.split, so the config is as before
ConfigAfterBuild(config, cmd) == config

\* _build_command(task, working_dir, auto_approve, structured_output, model):
\* [ok, cmd, config]; ok = FALSE stands for the ValueError of shlex.split
build_command(config, args) ==
    LET base == BaseCommand(config) IN
    IF ~base.ok THEN [ok |-> FALSE, cmd |-> << >>, config |-> config]
    ELSE
      LET c2 == AddSubcommand(config, base.tokens)
          c3 == AddModel(config, c2, args.model)
          c4 == AddTask(config, c3, args.task)
          c5 == AddAutoApprove(config, c4, args.auto_approve)
          c6 == AddStructuredOutput(config, c5, args.structured_output)
          c7 == AddWorkingDir(config, c6, args.working_dir)
          c8 == AddAdditionalFlags(config, c7)
      IN [ok |-> TRUE, cmd |-> c8, config |-> ConfigAfterBuild(config, c8)]

(***************************************************************************)
(* The profiles file local_cli_profiles.yaml and _load_profiles.           *)
(***************************************************************************)
CmdTestTool == << "t", "e", "s", "t", "-", "t", "o", "o", "l" >>

\* the profiles of a well-formed profiles file, in file order (a dict keeps
\* insertion order): the two profiles of the test suite's file
FileProfiles ==
    << [name |-> "test-tool",
        config |-> [LocalCLIConfig(CmdTestTool, "--task") EXCEPT
                      !.name = "Test Tool",
                      !.auth_env = << "TEST_API_KEY" >>,
                      !.auto_approve = "--yes",
                      !.timeout = 120]],
       [name |-> "aider",
        config |-> [LocalCLIConfig(CmdAider, "--message") EXCEPT
                      !.name = "Aider",
                      !.auth_env = << "OPENAI_API_KEY" >>,
                      !.auto_approve = "--yes-always",
                      !.model_flag = "--model",
                      !.additional_flags = << "--no-git" >>]] >>

\* what the file system holds at the profiles path: no file, a file that
\* yaml.safe_load or LocalCLIConfig(**config_dict) rejects, a file with an
\* empty profiles mapping, a file with FileProfiles
FileStates == {"absent", "invalid", "empty", "profiles"}

\* the mapping parsed from a readable file
ParsedProfiles(file) == IF file = "profiles" THEN FileProfiles ELSE << >>

NoCache == [some |-> FALSE, profiles |-> << >>]

\* `if cls._profiles_cache:`, which takes an empty mapping for no cache
CacheHitTruthy(cache) == cache.some /\ Len(cache.profiles) > 0

\* `if cls._profiles_cache is not None`
CacheHit(cache) == cache.some

NoError == [type |-> "", msg |-> << >>]

\* _load_profiles(): [cache, ok, profiles, error, read_file]
load_profiles(cache, file) ==
    IF CacheHit(cache)
    THEN [cache |-> cache, ok |-> TRUE, profiles |-> cache.profiles,
          error |-> NoError, read_file |-> FALSE]
    ELSE IF file = "absent"
    THEN [cache |-> cache, ok |-> FALSE, profiles |-> << >>,
          error |-> [type |-> "FileNotFoundError",
                     msg |-> << "Profiles file not found: ",
                                "local_cli_profiles.yaml" >>],
          read_file |-> FALSE]
    ELSE IF file = "invalid"
    THEN [cache |-> cache, ok |-> FALSE, profiles |-> << >>,
          error |-> [type |-> "ParseError", msg |-> << >>],
          read_file |-> TRUE]
    ELSE [cache |-> [some |-> TRUE, profiles |-> ParsedProfiles(file)],
          ok |-> TRUE, profiles |-> ParsedProfiles(file),
          error |-> NoError, read_file |-> TRUE]

\* list(profiles.keys())
Keys(profiles) == [i \in 1..Len(profiles) |-> profiles[i].name]

\* profiles[name]
Lookup(profiles, name) ==
    profiles[CHOOSE i \in 1..Len(profiles) : profiles[i].name = name].config

HasKey(profiles, name) == \E i \in 1..Len(profiles) : profiles[i].name = name

(***************************************************************************)
(* run: the environment check, the errors and subprocess.run.              *)
(***************************************************************************)
\* a check that stops at the first missing name
MissingVarsFirstOnly(auth_env, env) ==
    LET all == SelectSeq(auth_env, LAMBDA v : v \notin env)
    IN IF all = << >> THEN << >> ELSE << all[1] >>

\* the names of auth_env that are not in os.environ, in auth_env order
MissingVars(auth_env, env) == SelectSeq(auth_env, LAMBDA v : v \notin env)

MissingEnvError(config, missing) ==
    [type |-> "RuntimeError",
     msg |-> << "Missing required environment variables for ",
                Concat(config.command), ": " >>
             \o Join(", ", missing)
             \o << "\nSet these before running: " >>
             \o Join(", ", missing)]

\* an error message that leaves the child's stderr out
CommandFailedErrorNoStderr(cmd, returncode, stdout, stderr) ==
    [type |-> "RuntimeError",
     msg |-> << "Command failed with exit code ", ToString(returncode),
                "\nCommand: " >>
             \o Join(" ", cmd)
             \o << "\nstdout: ", stdout >>]

\* raised from CalledProcessError (check=True and a nonzero return code)
CommandFailedError(cmd, returncode, stdout, stderr) ==
    [type |-> "RuntimeError",
     msg |-> << "Command failed with exit code ", ToString(returncode),
                "\nCommand: " >>
             \o Join(" ", cmd)
             \o << "\nstdout: ", stdout, "\nstderr: ", stderr >>]

\* raised from subprocess.TimeoutExpired
CommandTimedOutError(config, cmd) ==
    [type |-> "RuntimeError",
     msg |-> << "Command timed out after ", ToString(config.timeout),
                "s\nCommand: " >>
             \o Join(" ", cmd)]

\* env=os.environ.copy(): the child's environment
ChildEnv(env) == env

\* model=model or self.model
EffectiveArgs(runner, args) ==
    [args EXCEPT !.model = PyOr(args.model, runner.model)]

\* what a child process can do
ExitCodes == {0, 1}
Stdouts == {"", "Test output"}
Stderrs == {"Error occurred"}

(***************************************************************************)
(* The state.                                                              *)
(***************************************************************************)
VARIABLES
    environ,         \* os.environ: the names that are set
    profiles_file,   \* what the file system holds at the profiles path
    profiles_cache,  \* LocalCLIRunner._profiles_cache
    runner,          \* the LocalCLIRunner object in use: config and model
    pc,              \* "idle", or "waiting" while run is inside subprocess.run
    procs,           \* the subprocess.run calls of the latest run() call
    last,            \* the latest call: operation, arguments and outcome
    fs,              \* the workspace on disk: packages and configuration dirs
    installed,       \* the frameworks that can be imported
    mgr,             \* the ManagerAgent object: its crews and its two caches
    threads,         \* the delegate calls running on worker threads
    gather,          \* the delegate_parallel call in progress
    crawl            \* the CrawlWebsiteTool._run call and the web it reads

\* the state of the command-line runner
cli_vars == << environ, profiles_file, profiles_cache, runner, pc, procs >>

\* the state of discovery, dispatch, the manager and the crawl tool
crew_vars == << fs, installed, mgr, threads, gather, crawl >>

vars == << environ, profiles_file, profiles_cache, runner, pc, procs, last,
           fs, installed, mgr, threads, gather, crawl >>

NoRunner == [some |-> FALSE, config |-> LocalCLIConfig(<< >>, ""), model |-> NoneV]

NoArgs == [task |-> NoneV, working_dir |-> NoneV, auto_approve |-> FALSE,
           structured_output |-> FALSE, model |-> NoneV]

\* the record of a call
Call(op, args, status, value, error, read_file) ==
    [op |-> op, args |-> args, status |-> status, value |-> value,
     error |-> error, read_file |-> read_file]

NoCall == Call("none", NoArgs, "none", << >>, NoError, FALSE)

(***************************************************************************)
(* The inputs enumerated.                                                  *)
(***************************************************************************)
Tasks == {"Fix the bug", "--yes", "--model"}
Models == {NoneV, "", "gpt-4o", "--message"}
WorkingDirs == {NoneV, "/w"}

\* every combination of runtime inputs of _build_command
ArgSpace ==
    [task : Tasks, working_dir : WorkingDirs, auto_approve : BOOLEAN,
     structured_output : BOOLEAN, model : Models]

\* the runtime inputs tried on a runner that goes on to spawn processes
RunArgs ==
    [task : {"Fix the bug"}, working_dir : WorkingDirs, auto_approve : BOOLEAN,
     structured_output : {FALSE}, model : {NoneV, "gpt-4o"}]

\* the fewer inputs tried in the specification of the runner's whole life
FewArgs ==
    [task : {"Fix the bug"}, working_dir : WorkingDirs, auto_approve : {TRUE},
     structured_output : {FALSE}, model : {NoneV, "gpt-4o"}]

\* every profile shape the builder distinguishes
ConfigSpace ==
    [command : Commands, task_flag : {"", "--message"},
     subcommand : {NoneV, "", "run"}, auth_env : {<< >>},
     auto_approve : {NoneV, "--yes"},
     structured_output : {NoneV, "--json", "--yes"},
     model_flag : {NoneV, "--model"}, default_model : {NoneV, "codellama"},
     working_dir_flag : {NoneV, "--cwd"},
     additional_flags : SeqsUpTo(FlagPool, MaxFlags),
     timeout : {DefaultTimeout}, name : {""}]

\* the configs of the runners that are run: every auth_env list, a command
\* that tokenises and one that does not, two timeouts
RunConfigs ==
    {[LocalCLIConfig(c, "--task") EXCEPT !.auth_env = a, !.timeout = t] :
        c \in {CmdAider, CmdUnbalanced},
        a \in SeqsUpTo(EnvNames, MaxAuthEnv),
        t \in {1, DefaultTimeout}}

\* the custom configs handed to the constructor in the runner's whole life
CustomConfigs ==
    {[LocalCLIConfig(CmdAider, "--task") EXCEPT
        !.auth_env = << "TEST_API_KEY", "OPENAI_API_KEY" >>],
     LocalCLIConfig(CmdUnbalanced, "")}

ProfileNames == {"test-tool", "aider", "unknown-tool"}

(***************************************************************************)
(* The workspace on disk: packages/<name>/<configuration dir>/manifest.yaml *)
(* and the files a manifest names.                                         *)
(***************************************************************************)
\* Framework directory names in priority order
FRAMEWORK_DIRS == << ".crewai", ".langgraph", ".strands" >>

\* the framework-agnostic directory name, which the tests create
AgnosticDir == ".crew"

\* the directory names a package is given on disk
ConfigDirNames == {AgnosticDir, ".crewai", ".langgraph", ".strands"}

\* Mapping from directory name to framework name
DIR_TO_FRAMEWORK ==
    [d \in {".crewai", ".langgraph", ".strands"} |->
        CASE d = ".crewai" -> "crewai"
          [] d = ".langgraph" -> "langgraph"
          [] d = ".strands" -> "strands"]

\* Mapping from framework name to directory name:
\* {v: k for k, v in DIR_TO_FRAMEWORK.items()}
FRAMEWORK_TO_DIR ==
    [f \in {DIR_TO_FRAMEWORK[d] : d \in DOMAIN DIR_TO_FRAMEWORK} |->
        CHOOSE d \in DOMAIN DIR_TO_FRAMEWORK : DIR_TO_FRAMEWORK[d] = f]

\* the names under packages/, and the workspace root itself as a place that
\* holds configuration directories
PkgNames == {"hybrid", "strata"}
RootDir == "."
Places == PkgNames \cup {RootDir}

\* a configuration directory that does not exist, one that exists without
\* manifest.yaml, and one with a manifest that has the given crew table
\* and, besides the manifest, the given files
NoDir == [state |-> "none", has_crews |-> FALSE, crews |-> << >>, files |-> {}]
BareDir == [NoDir EXCEPT !.state = "empty"]
ManifestDir(crews, files) ==
    [state |-> "manifest", has_crews |-> TRUE, crews |-> crews, files |-> files]

\* a workspace without a packages directory and without configuration
NoFs == [root_name |-> "ws",
         has_packages |-> FALSE,
         entries |-> [p \in PkgNames |-> "absent"],
         cfg |-> [w \in Places |-> [d \in ConfigDirNames |-> NoDir]]]

\* the path of a configuration directory: where it is and its name
ConfigPath(place, dir_name) == [place |-> place, name |-> dir_name]

\* self._packages_cache = None and self._crew_config_cache = {}; `writes`
\* and `config_writes` count the assignments made to them so far
NoPackagesCache == [some |-> FALSE, packages |-> << >>, writes |-> 0]

NoManager == [some |-> FALSE, crews |-> << >>, package_name |-> NoneV,
              packages_cache |-> NoPackagesCache,
              crew_config_cache |-> << >>,
              config_writes |-> << >>]

\* no delegate_parallel call yet; `finished` lists the delegations in
\* the order their threads ended
NoGather == [delegations |-> << >>, finished |-> << >>, results |-> << >>,
             error |-> NoError, status |-> "none"]

\* nothing of discovery, dispatch or the manager is in use
\* no crawl is running and no web is looked at
NoCrawl == [web |-> << >>, pc |-> "idle", url |-> NoneV, base_netloc |-> NoneV,
            urls_to_visit |-> << >>, visited_urls |-> {},
            scraped_content |-> << >>, requests |-> << >>,
            errors |-> << >>, value |-> NoneV]

CrewIdle ==
    /\ fs = NoFs
    /\ installed = {}
    /\ mgr = NoManager
    /\ threads = << >>
    /\ gather = NoGather
    /\ crawl = NoCrawl

(***************************************************************************)
(* Initial states.                                                         *)
(***************************************************************************)
Init ==
    /\ environ \in {E \cup {OtherEnvName} : E \in SUBSET EnvNames}
    /\ profiles_file \in FileStates
    /\ profiles_cache = NoCache
    /\ runner = NoRunner
    /\ pc = "idle"
    /\ procs = << >>
    /\ last = NoCall
    /\ CrewIdle

(***************************************************************************)
(* The profile store: _load_profiles, get_available_profiles, __init__.    *)
(***************************************************************************)
\* the profiles file is created, rewritten or removed by something else
FileChanges ==
    /\ pc = "idle"
    /\ \E f \in FileStates \ {profiles_file} : profiles_file' = f
    /\ UNCHANGED << environ, profiles_cache, runner, pc, procs, last >>

LoadProfilesCall ==
    /\ pc = "idle"
    /\ LET r == load_profiles(profiles_cache, profiles_file) IN
         /\ profiles_cache' = r.cache
         /\ last' = Call("_load_profiles", NoArgs,
                         IF r.ok THEN "returned" ELSE "raised",
                         r.profiles, r.error, r.read_file)
    /\ UNCHANGED << environ, profiles_file, runner, pc, procs >>

GetAvailableProfilesCall ==
    /\ pc = "idle"
    /\ LET r == load_profiles(profiles_cache, profiles_file) IN
         /\ profiles_cache' = r.cache
         /\ last' = Call("get_available_profiles", NoArgs,
                         IF r.ok THEN "returned" ELSE "raised",
                         Keys(r.profiles), r.error, r.read_file)
    /\ UNCHANGED << environ, profiles_file, runner, pc, procs >>

\* an unknown-profile error that leaves the valid names out
UnknownProfileErrorNoNames(name, profiles) ==
    [type |-> "ValueError",
     msg |-> << "Unknown profile '", name, "'." >>]

UnknownProfileError(name, profiles) ==
    [type |-> "ValueError",
     msg |-> << "Unknown profile '", name, "'. Available: [" >>
             \o Join(", ", Keys(profiles))
             \o << "]\nOr provide a LocalCLIConfig object for custom tools." >>]

\* LocalCLIRunner(profile: str, model)
InitWithName(name, model) ==
    /\ pc = "idle"
    /\ LET r == load_profiles(profiles_cache, profiles_file)
           args == [NoArgs EXCEPT !.task = name, !.model = model]
       IN
         /\ profiles_cache' = r.cache
         /\ IF ~r.ok
            THEN /\ runner' = runner
                 /\ last' = Call("__init__", args, "raised", NoRunner,
                                 r.error, r.read_file)
            ELSE IF ~HasKey(r.profiles, name)
            THEN /\ runner' = runner
                 /\ last' = Call("__init__", args, "raised", NoRunner,
                                 UnknownProfileError(name, r.profiles),
                                 r.read_file)
            ELSE LET new == [some |-> TRUE,
                             config |-> Lookup(r.profiles, name),
                             model |-> model]
                 IN /\ runner' = new
                    /\ last' = Call("__init__", args, "returned", new,
                                    NoError, r.read_file)
    /\ UNCHANGED << environ, profiles_file, pc, procs >>

\* LocalCLIRunner(profile: LocalCLIConfig | dict, model): a dict is turned
\* into the LocalCLIConfig with the same fields
InitWithConfig(config, model) ==
    /\ pc = "idle"
    /\ LET new == [some |-> TRUE, config |-> config, model |-> model] IN
         /\ runner' = new
         /\ last' = Call("__init__", [NoArgs EXCEPT !.model = model],
                         "returned", new, NoError, FALSE)
    /\ UNCHANGED << environ, profiles_file, profiles_cache, pc, procs >>

(***************************************************************************)
(* The runner's queries.                                                   *)
(***************************************************************************)
RECURSIVE SplitWords(_, _, _)
\* str.split(): the words between runs of whitespace
SplitWords(s, word, out) ==
    IF Len(s) = 0 THEN (IF word # "" THEN Append(out, word) ELSE out)
    ELSE IF Head(s) \in Whitespace
         THEN SplitWords(Tail(s), "", IF word # "" THEN Append(out, word) ELSE out)
         ELSE SplitWords(Tail(s), word \o Head(s), out)

\* is_available(): which(self.config.command.split()[0]) is not None
IsAvailableCall ==
    /\ pc = "idle"
    /\ runner.some
    /\ LET words == SplitWords(runner.config.command, "", << >>) IN
         IF Len(words) = 0
         THEN last' = Call("is_available", NoArgs, "raised", FALSE,
                           [type |-> "IndexError", msg |-> << >>], FALSE)
         ELSE \E on_path \in BOOLEAN :
                last' = Call("is_available", [NoArgs EXCEPT !.task = words[1]],
                             "returned", on_path, NoError, FALSE)
    /\ UNCHANGED << environ, profiles_file, profiles_cache, runner, pc, procs >>

GetRequiredEnvVarsCall ==
    /\ pc = "idle"
    /\ runner.some
    /\ last' = Call("get_required_env_vars", NoArgs, "returned",
                    runner.config.auth_env, NoError, FALSE)
    /\ UNCHANGED << environ, profiles_file, profiles_cache, runner, pc, procs >>

\* runner._build_command(task, working_dir, auto_approve, structured_output, model)
BuildCommandCall(args) ==
    /\ pc = "idle"
    /\ runner.some
    /\ LET b == build_command(runner.config, args) IN
         /\ runner' = [runner EXCEPT !.config = b.config]
         /\ last' = Call("_build_command", args,
                         IF b.ok THEN "returned" ELSE "raised", b.cmd,
                         IF b.ok THEN NoError
                         ELSE [type |-> "ValueError", msg |-> << >>], FALSE)
    /\ UNCHANGED << environ, profiles_file, profiles_cache, pc, procs >>

(***************************************************************************)
(* run.                                                                    *)
(***************************************************************************)
\* one subprocess.run call: the child it starts, or the failed attempt.
\* returncode is -1 (Python's None) until the child has ended.
Popen(cmd, cwd, env, started) ==
    [argv |-> cmd, cwd |-> cwd, env |-> env,
     status |-> IF started THEN "running" ELSE "not_started",
     returncode |-> -1, stdout |-> "", stderr |-> "", timed_out |-> FALSE]

\* the child ends by itself and is reaped by communicate()
Reap(p, returncode, stdout, stderr) ==
    [p EXCEPT !.status = "exited", !.returncode = returncode,
              !.stdout = stdout, !.stderr = stderr]

\* a timeout that gives up waiting and leaves the child alone
LeaveRunning(p) == [p EXCEPT !.timed_out = TRUE]

\* subprocess.run on TimeoutExpired: process.kill(), then process.wait()
KillAndReap(p) ==
    [p EXCEPT !.status = "killed", !.returncode = -9, !.timed_out = TRUE]

\* run(task, working_dir, auto_approve, structured_output, model) up to the
\* point where subprocess.run waits for the child
RunCall(args) ==
    /\ pc = "idle"
    /\ runner.some
    /\ LET config == runner.config
           missing == MissingVars(config.auth_env, environ)
           b == build_command(config, EffectiveArgs(runner, args))
       IN
         IF missing # << >>
         THEN /\ last' = Call("run", args, "raised", "",
                              MissingEnvError(config, missing), FALSE)
              /\ procs' = << >>
              /\ UNCHANGED << runner, pc >>
         ELSE IF ~b.ok
         THEN /\ last' = Call("run", args, "raised", "",
                              [type |-> "ValueError", msg |-> << >>], FALSE)
              /\ procs' = << >>
              /\ runner' = [runner EXCEPT !.config = b.config]
              /\ pc' = pc
         ELSE \E started \in BOOLEAN :
              /\ procs' = << Popen(b.cmd, args.working_dir, ChildEnv(environ),
                                   started) >>
              /\ runner' = [runner EXCEPT !.config = b.config]
              /\ IF started
                 THEN /\ pc' = "waiting"
                      /\ last' = Call("run", args, "pending", "", NoError, FALSE)
                 ELSE /\ pc' = "idle"
                      /\ last' = Call("run", args, "raised", "",
                                      [type |-> "OSError", msg |-> << >>], FALSE)
    /\ UNCHANGED << environ, profiles_file, profiles_cache >>

\* the child ends within the timeout: stdout is returned on exit code 0,
\* check=True raises CalledProcessError otherwise
ChildExits(returncode, stdout, stderr) ==
    /\ pc = "waiting"
    /\ procs' = [procs EXCEPT
                   ![Len(procs)] = Reap(@, returncode, stdout, stderr)]
    /\ pc' = "idle"
    /\ last' = IF returncode = 0
               THEN [last EXCEPT !.status = "returned", !.value = stdout]
               ELSE [last EXCEPT !.status = "raised",
                       !.error = CommandFailedError(procs[Len(procs)].argv,
                                                    returncode, stdout, stderr)]
    /\ UNCHANGED << environ, profiles_file, profiles_cache, runner >>

\* a run that starts the command again when the timeout expires
ChildTimesOutRetries ==
    /\ pc = "waiting"
    /\ procs' = Append([procs EXCEPT ![Len(procs)] = KillAndReap(@)],
                       Popen(procs[Len(procs)].argv, procs[Len(procs)].cwd,
                             procs[Len(procs)].env, TRUE))
    /\ UNCHANGED << environ, profiles_file, profiles_cache, runner, pc, last >>

\* the timeout expires: subprocess.run kills the child, waits for it and
\* raises TimeoutExpired, which run turns into a RuntimeError
ChildTimesOut ==
    /\ pc = "waiting"
    /\ procs' = [procs EXCEPT ![Len(procs)] = KillAndReap(@)]
    /\ pc' = "idle"
    /\ last' = [last EXCEPT !.status = "raised",
                  !.error = CommandTimedOutError(runner.config,
                                                 procs[Len(procs)].argv)]
    /\ UNCHANGED << environ, profiles_file, profiles_cache, runner >>

(***************************************************************************)
(* Specifications.                                                         *)
(***************************************************************************)
Next ==
    /\ UNCHANGED crew_vars
    /\ \/ FileChanges
       \/ LoadProfilesCall
       \/ GetAvailableProfilesCall
       \/ \E name \in ProfileNames, model \in {NoneV, "gpt-4o"} :
             InitWithName(name, model)
       \/ \E config \in CustomConfigs, model \in {NoneV, "gpt-4o"} :
             InitWithConfig(config, model)
       \/ IsAvailableCall
       \/ GetRequiredEnvVarsCall
       \/ \E args \in FewArgs : BuildCommandCall(args)
       \/ \E args \in FewArgs : RunCall(args)
       \/ \E rc \in ExitCodes, out \in Stdouts, err \in Stderrs :
             ChildExits(rc, out, err)
       \/ ChildTimesOut

\* the runner's whole life: profiles, construction, queries and runs
Spec == Init /\ [][Next]_vars

\* a constructed runner, with or without loaded profiles, in every environment
RunInit ==
    /\ environ \in {E \cup {OtherEnvName} : E \in SUBSET EnvNames}
    /\ profiles_file = "profiles"
    /\ profiles_cache \in {NoCache, [some |-> TRUE, profiles |-> FileProfiles]}
    /\ runner \in {[some |-> TRUE, config |-> c, model |-> m] :
                     c \in RunConfigs \cup {FileProfiles[i].config :
                                               i \in DOMAIN FileProfiles},
                     m \in {NoneV, "gpt-4o"}}
    /\ pc = "idle"
    /\ procs = << >>
    /\ last = NoCall
    /\ CrewIdle

RunNext ==
    /\ UNCHANGED crew_vars
    /\ \/ IsAvailableCall
       \/ GetRequiredEnvVarsCall
       \/ \E args \in RunArgs : BuildCommandCall(args)
       \/ \E args \in RunArgs : RunCall(args)
       \/ \E rc \in ExitCodes, out \in Stdouts, err \in Stderrs :
             ChildExits(rc, out, err)
       \/ ChildTimesOut

\* the calls on one runner: queries, command building and runs
RunSpec == RunInit /\ [][RunNext]_vars

\* the command builder applied to every profile shape and every input
BuildInit ==
    /\ environ = {OtherEnvName}
    /\ profiles_file = "absent"
    /\ profiles_cache = NoCache
    /\ runner \in {[some |-> TRUE, config |-> c, model |-> NoneV] :
                     c \in ConfigSpace}
    /\ pc = "idle"
    /\ procs = << >>
    /\ last = NoCall
    /\ CrewIdle

\* one call per profile: the builder keeps nothing from one call to the next
BuildNext ==
    /\ UNCHANGED crew_vars
    /\ last.op = "none"
    /\ \E args \in ArgSpace : BuildCommandCall(args)

BuildSpec == BuildInit /\ [][BuildNext]_vars

(***************************************************************************)
(* Properties.                                                             *)
(***************************************************************************)
Range(f) == {f[i] : i \in DOMAIN f}

\* the latest call is run(), and the environment check of that call failed
RunMissedEnv ==
    /\ last.op = "run"
    /\ \E v \in Range(runner.config.auth_env) : v \notin environ

\* C1: when a name of auth_env is not in the environment, run fails with a
\* RuntimeError whose message names every missing variable, whatever else
\* is wrong with the profile, and the call has made no subprocess.run call
C1_MissingEnvFailsBeforeSpawn ==
    RunMissedEnv =>
        /\ last.status = "raised"
        /\ last.error.type = "RuntimeError"
        /\ last.error.msg[1] = "Missing required environment variables for "
        /\ \A v \in Range(runner.config.auth_env) :
              v \notin environ => v \in Range(last.error.msg)
        /\ procs = << >>
        /\ pc = "idle"

\* a run that failed with two different variables missing, on a profile
\* whose command would not even tokenise
C1_Witness ==
    /\ RunMissedEnv
    /\ last.status = "raised"
    /\ runner.config.auth_env = << "TEST_API_KEY", "OPENAI_API_KEY" >>
    /\ environ = {OtherEnvName}
    /\ runner.config.command = CmdUnbalanced

(***************************************************************************)
(* The command the specification describes, piece by piece.                *)
(***************************************************************************)
Defines(flag) == flag # NoneV /\ flag # ""
Supplied(value) == value # NoneV /\ value # ""

PartSubcommand(c) == IF Defines(c.subcommand) THEN << c.subcommand >> ELSE << >>

PartModel(c, a) ==
    CASE Supplied(a.model) /\ Defines(c.model_flag) -> << c.model_flag, a.model >>
      [] Supplied(a.model) /\ ~Defines(c.model_flag) -> << a.model >>
      [] ~Supplied(a.model) /\ Defines(c.default_model) /\ ~Defines(c.model_flag)
            -> << c.default_model >>
      [] OTHER -> << >>

PartTask(c, a) ==
    IF c.task_flag = "" THEN << a.task >> ELSE << c.task_flag, a.task >>

PartAutoApprove(c, a) ==
    IF a.auto_approve /\ Defines(c.auto_approve) THEN << c.auto_approve >> ELSE << >>

PartStructuredOutput(c, a) ==
    IF a.structured_output /\ Defines(c.structured_output)
    THEN << c.structured_output >> ELSE << >>

PartWorkingDir(c, a) ==
    IF Supplied(a.working_dir) /\ Defines(c.working_dir_flag)
    THEN << c.working_dir_flag, a.working_dir >> ELSE << >>

\* what follows the task in the command
PartsAfterTask(c, a) ==
    PartAutoApprove(c, a) \o PartStructuredOutput(c, a) \o PartWorkingDir(c, a)
      \o c.additional_flags

\* the latest call is a _build_command call that returned a command
Built == last.op = "_build_command" /\ last.status = "returned"

\* the number of tokens before the model: the base command and the subcommand
LenHead(c) == Len(ShlexSplit(c.command).tokens) + Len(PartSubcommand(c))

\* the command of the specification's algorithm
PartsInOrder(c, a) ==
    ShlexSplit(c.command).tokens \o PartSubcommand(c) \o PartModel(c, a)
      \o PartTask(c, a) \o PartAutoApprove(c, a) \o PartStructuredOutput(c, a)
      \o PartWorkingDir(c, a) \o c.additional_flags

\* C2 as claimed: for every profile and every combination of inputs,
\* _build_command returns the parts in order
C2_Original ==
    last.op = "_build_command" =>
        /\ last.status = "returned"
        /\ last.value = PartsInOrder(runner.config, last.args)

\* C2, amended: _build_command returns a command exactly when the base
\* command string tokenises (no unterminated quote, no trailing escape),
\* and that command is the base command's tokens, the subcommand, the model
\* tokens, the task tokens, the auto-approve token, the structured-output
\* token, the working-directory pair and the additional flags, in this
\* order and with nothing else; otherwise it raises ValueError
C2_CommandIsThePartsInOrder ==
    last.op = "_build_command" =>
        /\ (last.status = "returned") = ShlexSplit(runner.config.command).ok
        /\ last.status = "returned" =>
              last.value = PartsInOrder(runner.config, last.args)
        /\ last.status # "returned" =>
              last.status = "raised" /\ last.error.type = "ValueError"

\* a command with every optional part present and two additional flags
C2_Witness ==
    /\ Built
    /\ runner.config.command = CmdTwoWords
    /\ runner.config.additional_flags = << "--yes", "--no-git" >>
    /\ Len(last.value) = 13

\* C3: with an empty task_flag the task is one positional token, the literal
\* task string; with a task_flag the tokens task_flag, task are adjacent; and
\* the command holds the task in one of the two forms only (its length
\* leaves room for no other)
C3_TaskPositionalOrFlagged ==
    Built =>
        LET c == runner.config
            a == last.args
            p == LenHead(c) + Len(PartModel(c, a))
            rest == Len(PartsAfterTask(c, a))
        IN IF c.task_flag = ""
           THEN /\ Len(last.value) = p + 1 + rest
                /\ last.value[p + 1] = a.task
           ELSE /\ Len(last.value) = p + 2 + rest
                /\ last.value[p + 1] = c.task_flag
                /\ last.value[p + 2] = a.task

\* a positional task of several words after a positional model
C3_Witness ==
    /\ Built
    /\ runner.config.task_flag = ""
    /\ last.args.task = "Fix the bug"
    /\ last.args.model = "gpt-4o"
    /\ ~Defines(runner.config.model_flag)
    /\ last.value[LenHead(runner.config) + 2] = "Fix the bug"

\* C4: a supplied model on a profile with a model_flag gives the adjacent
\* pair model_flag, model; with no model supplied, a default_model on a
\* profile without model_flag is the token right after the subcommand (or
\* the command); and with no model supplied a profile with a model_flag
\* gets no model token at all: the task follows the subcommand directly
C4_ModelResolution ==
    Built =>
        LET c == runner.config
            a == last.args
            p == LenHead(c)
        IN /\ (Supplied(a.model) /\ Defines(c.model_flag)) =>
                  Contains(last.value, << c.model_flag, a.model >>)
           /\ (~Supplied(a.model) /\ ~Defines(c.model_flag)
                 /\ Defines(c.default_model)) =>
                  last.value[p + 1] = c.default_model
           /\ (~Supplied(a.model) /\ Defines(c.model_flag)) =>
                  /\ SubSeq(last.value, p + 1, p + Len(PartTask(c, a)))
                        = PartTask(c, a)
                  /\ Len(last.value)
                        = p + Len(PartTask(c, a)) + Len(PartsAfterTask(c, a))

\* the default model of a profile without model_flag, right after the subcommand
C4_Witness ==
    /\ Built
    /\ runner.config.subcommand = "run"
    /\ runner.config.default_model = "codellama"
    /\ ~Defines(runner.config.model_flag)
    /\ ~Supplied(last.args.model)
    /\ last.value[LenHead(runner.config)] = "run"
    /\ last.value[LenHead(runner.config) + 1] = "codellama"

(***************************************************************************)
(* The process invoker.                                                    *)
(***************************************************************************)
\* the latest call is run(), and its environment check passed
RunPassedEnvCheck ==
    /\ last.op = "run"
    /\ \A v \in Range(runner.config.auth_env) : v \in environ

\* the command run() builds for the latest call
RunCommand == build_command(runner.config, EffectiveArgs(runner, last.args))

\* C5 as claimed: every run() call that passes the environment check makes
\* one subprocess.run call, with the built command as argv
C5_Original ==
    RunPassedEnvCheck =>
        /\ Len(procs) = 1
        /\ procs[1].argv = RunCommand.cmd

\* C5, amended: a run() call that passes the environment check makes one
\* subprocess.run call, with the built command as argv, when the base
\* command tokenises, and none (it fails with ValueError) when it does not;
\* it never makes a second one, and once the call is over the one attempt
\* has ended: the child exited, was killed on timeout or was never started,
\* and a nonzero exit, a timeout or a failed start has been raised
C5_OneSpawnNoRetry ==
    RunPassedEnvCheck =>
        IF RunCommand.ok
        THEN /\ Len(procs) = 1
             /\ procs[1].argv = RunCommand.cmd
             /\ procs[1].cwd = last.args.working_dir
             /\ pc = "waiting" => procs[1].status = "running"
             /\ pc = "idle" =>
                  /\ procs[1].status \in {"exited", "killed", "not_started"}
                  /\ (procs[1].status = "exited" /\ procs[1].returncode = 0)
                        = (last.status = "returned")
                  /\ last.status \in {"returned", "raised"}
        ELSE /\ procs = << >>
             /\ last.status = "raised"
             /\ last.error.type = "ValueError"

\* a run whose only child was killed on timeout, the call having failed
C5_Witness ==
    /\ RunPassedEnvCheck
    /\ pc = "idle"
    /\ Len(procs) = 1
    /\ procs[1].timed_out
    /\ last.status = "raised"
    /\ runner.config.auth_env = << "TEST_API_KEY", "OPENAI_API_KEY" >>

\* the child of the latest run() call ended with a nonzero exit code
ChildFailed ==
    /\ last.op = "run"
    /\ Len(procs) = 1
    /\ procs[1].status = "exited"
    /\ procs[1].returncode # 0

\* C6: after a nonzero exit run() has raised a RuntimeError, returned
\* nothing, and the message holds the exit code, the whole command (its
\* tokens joined by spaces), the captured stdout and the captured stderr
C6_NonzeroExitRaises ==
    ChildFailed =>
        /\ last.status = "raised"
        /\ last.value = ""
        /\ last.error.type = "RuntimeError"
        /\ last.error.msg[1] = "Command failed with exit code "
        /\ last.error.msg[2] = ToString(procs[1].returncode)
        /\ Contains(last.error.msg, Join(" ", procs[1].argv))
        /\ Contains(last.error.msg, << "\nstdout: ", procs[1].stdout >>)
        /\ Contains(last.error.msg, << "\nstderr: ", procs[1].stderr >>)

\* exit code 1 with empty stdout and stderr "Error occurred"
C6_Witness ==
    /\ ChildFailed
    /\ procs[1].returncode = 1
    /\ procs[1].stdout = ""
    /\ procs[1].stderr = "Error occurred"
    /\ last.status = "raised"
    /\ Len(procs[1].argv) = 4

\* the child of the latest run() call ran into the timeout
ChildTimedOut ==
    /\ last.op = "run"
    /\ Len(procs) = 1
    /\ procs[1].timed_out

C9_ProfileAndEnvironUnchanged ==
    [][/\ runner' = runner
       /\ profiles_cache' = profiles_cache
       /\ environ' = environ
       /\ \A i \in DOMAIN procs' : procs'[i].env = environ]_vars

\* a run that returned, with loaded profiles, on a profile with additional
\* flags, the child having had all three variables
C9_Witness ==
    /\ last.op = "run"
    /\ last.status = "returned"
    /\ profiles_cache.some
    /\ runner.config = FileProfiles[2].config
    /\ procs[1].env = {OtherEnvName} \cup EnvNames

\* the call is one of those that go through _load_profiles
LoadOp(c) ==
    \/ c.op \in {"_load_profiles", "get_available_profiles"}
    \/ c.op = "__init__" /\ c.args.task # NoneV

\* one step, as C10 allows it
C10_Step ==
    /\ profiles_cache.some =>
         /\ profiles_cache' = profiles_cache
         /\ (last' # last /\ LoadOp(last')) =>
              /\ ~last'.read_file
              /\ last'.op = "_load_profiles" =>
                   /\ last'.status = "returned"
                   /\ last'.value = profiles_cache.profiles
              /\ last'.op = "get_available_profiles" =>
                   /\ last'.status = "returned"
                   /\ last'.value = Keys(profiles_cache.profiles)
              /\ (last'.op = "__init__" /\ last'.status = "returned") =>
                   runner'.config
                     = Lookup(profiles_cache.profiles, last'.args.task)
    /\ (~profiles_cache.some /\ profiles_cache'.some) =>
         /\ LoadOp(last')
         /\ last'.read_file
         /\ profiles_file \in {"empty", "profiles"}
         /\ profiles_cache'.profiles = ParsedProfiles(profiles_file)
    /\ (~profiles_cache.some /\ profiles_file = "absent"
          /\ last' # last /\ LoadOp(last')) =>
         /\ last'.status = "raised"
         /\ last'.error.type = "FileNotFoundError"
         /\ ~last'.read_file
         /\ ~profiles_cache'.some

\* C10: the cache starts empty; it becomes populated only in a call that
\* reads and parses the profiles file; a load with the file absent raises
\* FileNotFoundError and leaves it empty; and once populated it never
\* changes, and every _load_profiles, get_available_profiles and
\* LocalCLIRunner(name) call is served from it without reading the file
C10_CacheLazyAndSticky == ~profiles_cache.some /\ [][C10_Step]_vars

\* a runner built from the cache after the profiles file has gone
C10_Witness ==
    /\ profiles_cache.some
    /\ profiles_file = "absent"
    /\ last.op = "__init__"
    /\ last.args.task = "aider"
    /\ last.status = "returned"
    /\ ~last.read_file

(***************************************************************************)
(* Reading a command back.                                                 *)
(***************************************************************************)
\* the optional flag tokens of a profile that may follow the task
TailFlags(c) ==
    {c.auto_approve, c.structured_output, c.working_dir_flag} \ {NoneV, ""}

\* every flag token of a profile
FlagTokens(c) == (TailFlags(c) \cup {c.task_flag, c.model_flag}) \ {NoneV, ""}

\* A reader that knows the profile and reads the command token by token, in
\* the builder's order: the base command's tokens, the subcommand, the model
\* (after model_flag; or positional, which on a profile without default
\* model it tells from the task by the task_flag, or by what follows), the
\* task, then each optional flag if the next token is that flag, and at
\* the end the additional flags.  ok says that every token was accounted
\* for, each once.
ReadCommand(c, cmd) ==
    LET base == ShlexSplit(c.command).tokens
        n0 == Len(base)
        n1 == n0 + Len(PartSubcommand(c))
        end == Len(cmd) - Len(c.additional_flags)
        Tok(i) == IF i >= 1 /\ i <= end THEN cmd[i] ELSE NoneV
        headOk == /\ n1 <= end
                  /\ SubSeq(cmd, 1, n0) = base
                  /\ SubSeq(cmd, n0 + 1, n1) = PartSubcommand(c)
                  /\ SubSeq(cmd, end + 1, Len(cmd)) = c.additional_flags
        byFlag == Defines(c.model_flag) /\ Tok(n1 + 1) = c.model_flag
        positional ==
            /\ ~Defines(c.model_flag)
            /\ \/ Defines(c.default_model)
               \/ IF c.task_flag # ""
                  THEN Tok(n1 + 1) # c.task_flag
                  ELSE n1 + 2 <= end /\ Tok(n1 + 2) \notin TailFlags(c)
        model == IF byFlag THEN Tok(n1 + 2)
                 ELSE IF positional THEN Tok(n1 + 1) ELSE NoneV
        n2 == n1 + (IF byFlag THEN 2 ELSE IF positional THEN 1 ELSE 0)
        flagged == c.task_flag # ""
        n3 == n2 + (IF flagged THEN 2 ELSE 1)
        taskOk == n3 <= end /\ (flagged => Tok(n2 + 1) = c.task_flag)
        aa == Defines(c.auto_approve) /\ Tok(n3 + 1) = c.auto_approve
        n4 == n3 + (IF aa THEN 1 ELSE 0)
        so == Defines(c.structured_output) /\ Tok(n4 + 1) = c.structured_output
        n5 == n4 + (IF so THEN 1 ELSE 0)
        wd == /\ Defines(c.working_dir_flag)
              /\ Tok(n5 + 1) = c.working_dir_flag
              /\ n5 + 2 <= end
        n6 == n5 + (IF wd THEN 2 ELSE 0)
    IN [ok |-> headOk /\ taskOk /\ n6 = end,
        model |-> model,
        task |-> Tok(n3),
        auto_approve |-> aa,
        structured_output |-> so,
        working_dir |-> IF wd THEN Tok(n5 + 2) ELSE NoneV]

\* what the builder was given to put into the command: the task, the model
\* (the supplied one, else the positional default), the flags that were
\* requested and that the profile defines, the working directory if the
\* profile has a flag for it
Selected(c, a) ==
    [ok |-> TRUE,
     model |-> IF Supplied(a.model) THEN a.model
               ELSE IF Defines(c.default_model) /\ ~Defines(c.model_flag)
                    THEN c.default_model ELSE NoneV,
     task |-> a.task,
     auto_approve |-> a.auto_approve /\ Defines(c.auto_approve),
     structured_output |-> a.structured_output /\ Defines(c.structured_output),
     working_dir |-> IF Supplied(a.working_dir) /\ Defines(c.working_dir_flag)
                     THEN a.working_dir ELSE NoneV]

\* C8 as claimed: reading a built command back recovers exactly what the
\* profile and the runtime parameters put into it
C8_Original ==
    Built => ReadCommand(runner.config, last.value)
               = Selected(runner.config, last.args)

\* the flag tokens a profile defines, as a list
DefinedFlags(c) ==
    SelectSeq(<< c.task_flag, c.model_flag, c.auto_approve,
                 c.structured_output, c.working_dir_flag >>, Defines)

\* the profile's flag tokens differ from each other, and the task and the
\* model are not themselves flag tokens of the profile
Unambiguous(c, a) ==
    /\ Cardinality(Range(DefinedFlags(c))) = Len(DefinedFlags(c))
    /\ a.task \notin FlagTokens(c)
    /\ a.model \notin FlagTokens(c)

\* C8, amended: for a profile whose flag tokens differ from each other and
\* a task and a model that are not flag tokens of the profile, reading the
\* built command back recovers exactly the task, the model (the supplied
\* one or the positional default), the requested flags the profile defines
\* and the working directory, each token of the command accounted for once
C8_RoundTrip ==
    (Built /\ Unambiguous(runner.config, last.args)) =>
        ReadCommand(runner.config, last.value)
          = Selected(runner.config, last.args)

\* a positional model before a positional task, with the auto-approve
\* token, the working-directory pair and two additional flags, read back
C8_Witness ==
    /\ Built
    /\ Unambiguous(runner.config, last.args)
    /\ runner.config.task_flag = ""
    /\ ~Defines(runner.config.model_flag)
    /\ ~Defines(runner.config.default_model)
    /\ last.args.model = "gpt-4o"
    /\ last.args.auto_approve /\ Defines(runner.config.auto_approve)
    /\ last.args.working_dir = "/w" /\ Defines(runner.config.working_dir_flag)
    /\ runner.config.additional_flags = << "--yes", "--no-git" >>
    /\ ReadCommand(runner.config, last.value).ok

(***************************************************************************)
(* Construction from a profile name.                                       *)
(***************************************************************************)
\* the latest call is LocalCLIRunner(name) and the profiles were loaded
InitByName == last.op = "__init__" /\ last.args.task # NoneV /\ profiles_cache.some

\* one step, as C11 allows it: when it is a LocalCLIRunner(name) call with
\* the profiles loaded
C11_Step ==
    (last' # last /\ InitByName') =>
        LET name == last'.args.task
            profiles == profiles_cache'.profiles
        IN IF \E i \in DOMAIN profiles : profiles[i].name = name
           THEN /\ last'.status = "returned"
                /\ runner'.some
                /\ \E i \in DOMAIN profiles :
                      /\ profiles[i].name = name
                      /\ runner'.config = profiles[i].config
           ELSE /\ last'.status = "raised"
                /\ last'.error.type = "ValueError"
                /\ Contains(last'.error.msg, << "Unknown profile '", name >>)
                /\ \A i \in DOMAIN profiles :
                      Contains(last'.error.msg, << profiles[i].name >>)
                /\ last'.value = NoRunner
                /\ runner' = runner

\* C11: LocalCLIRunner(name) with a name that is not among the loaded
\* profiles raises ValueError "Unknown profile" whose message holds every
\* valid profile name, and produces no runner (the runner in use stays as
\* it was); with a name that is among them it produces a runner whose
\* config is the cached profile of that name
C11_UnknownProfileNamesAll == [][C11_Step]_vars

\* an unknown name asked of the two loaded profiles, after a runner exists
C11_Witness ==
    /\ InitByName
    /\ last.args.task = "unknown-tool"
    /\ last.status = "raised"
    /\ Len(profiles_cache.profiles) = 2
    /\ runner.some

(***************************************************************************)
(* Discovery: discover_packages.                                           *)
(***************************************************************************)
\* the directory names discover_packages looks for
dirs_to_check(framework) ==
    IF Truthy(framework)
    THEN IF framework \in DOMAIN FRAMEWORK_TO_DIR
         THEN << FRAMEWORK_TO_DIR[framework] >>
         ELSE FRAMEWORK_DIRS
    ELSE FRAMEWORK_DIRS

\* the first directory of the list that merely exists at the place
FirstExisting(filesys, place, dirs) ==
    LET hits == {i \in DOMAIN dirs : filesys.cfg[place][dirs[i]].state # "none"}
    IN IF hits = {} THEN 0 ELSE CHOOSE i \in hits : \A j \in hits : i <= j

\* the loop `for dir_name in dirs_to_check: if config_dir.exists() and
\* (config_dir / "manifest.yaml").exists(): ...; break`: the position of
\* the first directory of the list that holds a manifest, 0 when none does
FirstWithManifest(filesys, place, dirs) ==
    LET hits == {i \in DOMAIN dirs :
                   filesys.cfg[place][dirs[i]].state = "manifest"}
    IN IF hits = {} THEN 0 ELSE CHOOSE i \in hits : \A j \in hits : i <= j

\* the entries of packages/ that are directories
PackageDirs(filesys) ==
    IF filesys.has_packages
    THEN {p \in PkgNames : filesys.entries[p] = "dir"}
    ELSE {}

\* workspace_root.name or "default"
RootPkgName(filesys) ==
    IF filesys.root_name = "" THEN "default" ELSE filesys.root_name

\* discover_packages(workspace_root, framework): the dict from package name
\* to configuration directory
discover_packages(filesys, framework) ==
    LET dirs == dirs_to_check(framework)
        found == {p \in PackageDirs(filesys) :
                    FirstWithManifest(filesys, p, dirs) > 0}
        root_hit == FirstWithManifest(filesys, RootDir, dirs)
        names == IF root_hit > 0
                 THEN found \cup {RootPkgName(filesys)}
                 ELSE found
    IN [n \in names |->
          IF n \in found
          THEN ConfigPath(n, dirs[FirstWithManifest(filesys, n, dirs)])
          ELSE ConfigPath(RootDir, dirs[root_hit])]

\* the manifest the discovery tests write: "name: <package>\ncrews: {}"
EmptyManifestDir == ManifestDir(<< >>, {})
DirStates == {NoDir, BareDir, EmptyManifestDir}

\* the workspaces discovery is run on: one package directory with every
\* combination of configuration directories, a second entry, configuration
\* directories at the root, and a root named like a package, unnamed, or not
DiscFs ==
    {[root_name |-> rn, has_packages |-> hp, entries |-> en,
      cfg |-> [w \in Places |->
                 IF w = "hybrid" THEN ch
                 ELSE IF w = "strata" THEN cs
                 ELSE cr]] :
        rn \in {"ws", "hybrid", ""},
        hp \in BOOLEAN,
        en \in [PkgNames -> {"absent", "file", "dir"}],
        ch \in [ConfigDirNames -> DirStates],
        cs \in {[NoFs.cfg["strata"] EXCEPT ![AgnosticDir] = a, ![".strands"] = b] :
                  a \in {NoDir, EmptyManifestDir},
                  b \in {NoDir, EmptyManifestDir}},
        cr \in {[NoFs.cfg[RootDir] EXCEPT ![".crewai"] = a, ![".langgraph"] = b] :
                  a \in DirStates, b \in {NoDir, EmptyManifestDir}}}

\* only a directory holds configuration directories, and only an existing
\* packages directory holds entries
WellFormedFs(filesys) ==
    /\ ~filesys.has_packages => \A p \in PkgNames : filesys.entries[p] = "absent"
    /\ \A p \in PkgNames :
          filesys.entries[p] # "dir" =>
             \A d \in ConfigDirNames : filesys.cfg[p][d] = NoDir
    /\ filesys.entries["strata"] # "file"

\* the framework argument: none, empty, the three frameworks and another name
FrameworkArgs == {NoneV, "", "crewai", "langgraph", "strands", "autogen"}

DiscoverArgs(framework) == [framework |-> framework]

DiscoverPackagesCall(framework) ==
    /\ last' = Call("discover_packages", DiscoverArgs(framework), "returned",
                    discover_packages(fs, framework), NoError, FALSE)
    /\ UNCHANGED << cli_vars, crew_vars >>

DiscInit ==
    /\ environ = {OtherEnvName}
    /\ profiles_file = "absent"
    /\ profiles_cache = NoCache
    /\ runner = NoRunner
    /\ pc = "idle"
    /\ procs = << >>
    /\ last = NoCall
    /\ fs \in {f \in DiscFs : WellFormedFs(f)}
    /\ installed = {}
    /\ mgr = NoManager
    /\ threads = << >>
    /\ gather = NoGather
    /\ crawl = NoCrawl

DiscNext == \E framework \in FrameworkArgs : DiscoverPackagesCall(framework)

\* discover_packages on every workspace shape
DiscSpec == DiscInit /\ [][DiscNext]_vars

\* the latest call is a discover_packages call that returned
Discovered == last.op = "discover_packages" /\ last.status = "returned"

HasManifest(place, dir_name) == fs.cfg[place][dir_name].state = "manifest"

\* dirs[i] is the first directory of the list with a manifest at the place
FirstHit(place, dirs, i) ==
    /\ HasManifest(place, dirs[i])
    /\ \A j \in 1..(i - 1) : ~HasManifest(place, dirs[j])

\* C12: for a package directory that holds .crew with a manifest (with or
\* without .crewai beside it), discover_packages without a framework
\* returns the package, and the directory returned for it is .crew
C12_PrefersCrew ==
    (Discovered /\ last.args.framework = NoneV) =>
        \A p \in PackageDirs(fs) :
           HasManifest(p, AgnosticDir) =>
              /\ p \in DOMAIN last.value
              /\ last.value[p] = ConfigPath(p, AgnosticDir)

\* the directory names C13 has considered: with a framework only that
\* framework's directory name, which is none for a name without one
C13_OriginalDirs(framework) ==
    IF framework = NoneV THEN FRAMEWORK_DIRS
    ELSE IF framework \in DOMAIN FRAMEWORK_TO_DIR
    THEN << FRAMEWORK_TO_DIR[framework] >>
    ELSE << >>

C13_Dirs(framework) ==
    IF framework \in DOMAIN FRAMEWORK_TO_DIR
    THEN << FRAMEWORK_TO_DIR[framework] >>
    ELSE FRAMEWORK_DIRS

MaxKnowledge == 2

\* the files a configuration directory may hold besides the manifest
AgentsFile == "crews/test_crew/agents.yaml"
TasksFile == "crews/test_crew/tasks.yaml"
KnowledgeFiles == {"knowledge/a.md", "knowledge/b.md"}
FilePool == {AgentsFile, TasksFile} \cup KnowledgeFiles

\* an entry of the manifest's crew table with the given keys
PartialEntry(name, keys, knowledge) ==
    [name |-> name, keys |-> keys, description |-> "A test crew",
     agents |-> AgentsFile, tasks |-> TasksFile,
     has_knowledge |-> "knowledge" \in keys, knowledge |-> knowledge]

\* an entry as the manifest format has it; a manifest may leave the
\* knowledge key out
CrewEntry(name, has_knowledge, knowledge) ==
    PartialEntry(name,
                 {"description", "agents", "tasks"}
                   \cup (IF has_knowledge THEN {"knowledge"} ELSE {}),
                 knowledge)

\* {} and the mapping yaml.safe_load gives for the text of a file
EmptyMapping == [yaml |-> ""]
Parsed(dir, rel) == [yaml |-> rel, dir |-> dir]

\* crewai_dir / rel
FullPath(dir, rel) == [dir |-> dir, rel |-> rel]

\* load_manifest(crewai_dir): open() raises when there is no manifest
load_manifest(filesys, dir) ==
    LET c == filesys.cfg[dir.place][dir.name] IN
    IF c.state # "manifest"
    THEN [ok |-> FALSE, manifest |-> [has_crews |-> FALSE, crews |-> << >>],
          error |-> [type |-> "FileNotFoundError",
                     msg |-> << "manifest.yaml" >>]]
    ELSE [ok |-> TRUE, manifest |-> [has_crews |-> c.has_crews, crews |-> c.crews],
          error |-> NoError]

\* manifest.get("crews", {})
CrewTable(manifest) == IF manifest.has_crews THEN manifest.crews ELSE << >>

\* list(crews.keys())
CrewNames(crews) == [i \in DOMAIN crews |-> crews[i].name]

\* a not-found error that leaves the available names out
CrewNotFoundErrorNoNames(crew_name, crews) ==
    [type |-> "ValueError",
     msg |-> << "Crew '", crew_name, "' not found." >>]

\* ValueError(f"Crew '{crew_name}' not found. Available: {available}")
CrewNotFoundError(crew_name, crews) ==
    [type |-> "ValueError",
     msg |-> << "Crew '", crew_name, "' not found. Available: [" >>
             \o Join(", ", CrewNames(crews)) \o << "]" >>]

\* yaml.safe_load(path.read_text()) if path.exists() else {}
LoadYaml(files, dir, rel) ==
    IF rel \in files THEN Parsed(dir, rel) ELSE EmptyMapping

\* knowledge paths kept whether they exist or not
KnowledgePathsAll(files, dir, entry) ==
    LET declared == IF entry.has_knowledge THEN entry.knowledge ELSE << >>
    IN [i \in DOMAIN declared |-> FullPath(dir, declared[i])]

\* for kp in crew_config.get("knowledge", []): keep crewai_dir / kp when it
\* exists
KnowledgePaths(files, dir, entry) ==
    LET declared == IF entry.has_knowledge THEN entry.knowledge ELSE << >>
        existing == SelectSeq(declared, LAMBDA kp : kp \in files)
    IN [i \in DOMAIN existing |-> FullPath(dir, existing[i])]

\* get_crew_config(crewai_dir, crew_name): [ok, value, error]; an entry
\* without keys is falsy and counts as not found, and crew_config["agents"]
\* and crew_config["tasks"] raise KeyError for an entry without that key
get_crew_config(filesys, dir, crew_name) ==
    LET m == load_manifest(filesys, dir)
        crews == CrewTable(m.manifest)
        files == filesys.cfg[dir.place][dir.name].files
    IN IF ~m.ok THEN [ok |-> FALSE, value |-> << >>, error |-> m.error]
       ELSE IF ~\E i \in DOMAIN crews :
                   crews[i].name = crew_name /\ crews[i].keys # {}
       THEN [ok |-> FALSE, value |-> << >>,
             error |-> CrewNotFoundError(crew_name, crews)]
       ELSE IF \E i \in DOMAIN crews :
                  /\ crews[i].name = crew_name
                  /\ ~({"agents", "tasks"} \subseteq crews[i].keys)
       THEN [ok |-> FALSE, value |-> << >>,
             error |-> [type |-> "KeyError", msg |-> << >>]]
       ELSE LET entry == crews[CHOOSE i \in DOMAIN crews :
                                   crews[i].name = crew_name]
                agents == LoadYaml(files, dir, entry.agents)
                tasks == LoadYaml(files, dir, entry.tasks)
            IN [ok |-> TRUE,
                value |-> [name |-> crew_name,
                           description |-> entry.description,
                           agents |-> agents,
                           tasks |-> tasks,
                           knowledge_paths |->
                               KnowledgePaths(files, dir, entry),
                           manifest |-> m.manifest,
                           crewai_dir |-> dir],
                error |-> NoError]

\* the crew tables of the manifests: no crews key, an empty table, one crew,
\* two crews, the second one also as an empty entry and as an entry
\* without a tasks key
CrewTables ==
    {[has_crews |-> FALSE, crews |-> << >>], [has_crews |-> TRUE, crews |-> << >>]}
    \cup {[has_crews |-> TRUE, crews |-> << e >> \o rest] :
            e \in {CrewEntry("test_crew", FALSE, << >>)}
                  \cup {CrewEntry("test_crew", TRUE, k) :
                          k \in SeqsUpTo(KnowledgeFiles, MaxKnowledge)},
            rest \in {<< >>,
                      << CrewEntry("other_crew", TRUE, << >>) >>,
                      << PartialEntry("other_crew", {}, << >>) >>,
                      << PartialEntry("other_crew", {"description", "agents"},
                                      << >>) >>}}

\* one package whose configuration directory, under each of the four
\* names, is missing, bare, or holds a manifest and some of the files
CrewFs ==
    {[NoFs EXCEPT !.has_packages = TRUE,
                  !.entries["hybrid"] = "dir",
                  !.cfg["hybrid"][d] = c] :
        d \in ConfigDirNames,
        c \in {NoDir, BareDir}
              \cup {[state |-> "manifest", has_crews |-> t.has_crews,
                     crews |-> t.crews, files |-> f] :
                      t \in CrewTables, f \in SUBSET FilePool}}

CrewNameArgs == {"test_crew", "other_crew", "missing_crew"}

GetCrewConfigCall(dir, crew_name) ==
    /\ LET r == get_crew_config(fs, dir, crew_name) IN
         last' = Call("get_crew_config", [dir |-> dir, crew_name |-> crew_name],
                      IF r.ok THEN "returned" ELSE "raised",
                      r.value, r.error, TRUE)
    /\ UNCHANGED << cli_vars, crew_vars >>

CrewInit ==
    /\ environ = {OtherEnvName}
    /\ profiles_file = "absent"
    /\ profiles_cache = NoCache
    /\ runner = NoRunner
    /\ pc = "idle"
    /\ procs = << >>
    /\ last = NoCall
    /\ fs \in CrewFs
    /\ installed = {}
    /\ mgr = NoManager
    /\ threads = << >>
    /\ gather = NoGather
    /\ crawl = NoCrawl

CrewNext ==
    \E d \in ConfigDirNames, crew_name \in CrewNameArgs :
        /\ fs.cfg["hybrid"][d] # NoDir
        /\ GetCrewConfigCall(ConfigPath("hybrid", d), crew_name)

\* get_crew_config on every configuration directory and crew name
CrewSpec == CrewInit /\ [][CrewNext]_vars

\* the latest call is a get_crew_config call, which found the manifest
GotManifest ==
    /\ last.op = "get_crew_config"
    /\ fs.cfg[last.args.dir.place][last.args.dir.name].state = "manifest"

\* the crew table of the manifest the latest call read
TableRead == LET c == fs.cfg[last.args.dir.place][last.args.dir.name]
             IN IF c.has_crews THEN c.crews ELSE << >>

\* the asked crew is in that table
CrewInTable == \E i \in DOMAIN TableRead : TableRead[i].name = last.args.crew_name

\* C14: the configuration get_crew_config returns has a required_framework
\* field, which is the framework of the directory it was loaded from:
\* crewai for .crewai, langgraph for .langgraph, strands for .strands and
\* none for .crew
C14_RequiredFramework ==
    (GotManifest /\ last.status = "returned") =>
        /\ "required_framework" \in DOMAIN last.value
        /\ last.value.required_framework
             = IF last.args.dir.name = AgnosticDir THEN NoneV
               ELSE DIR_TO_FRAMEWORK[last.args.dir.name]

\* C15: get_crew_config for a crew name that is not in the manifest's crew
\* table raises ValueError "Crew ... not found" whose message holds every
\* crew name of the table, and returns no configuration
C15_UnknownCrewRaises ==
    (GotManifest /\ ~CrewInTable) =>
        /\ last.status = "raised"
        /\ last.error.type = "ValueError"
        /\ Contains(last.error.msg, << "Crew '", last.args.crew_name >>)
        /\ \A i \in DOMAIN TableRead :
              Contains(last.error.msg, << TableRead[i].name >>)
        /\ last.value = << >>

\* a name missing from a table of two crews
C15_Witness ==
    /\ GotManifest
    /\ last.args.crew_name = "missing_crew"
    /\ Len(TableRead) = 2
    /\ last.status = "raised"

\* the entry of the asked crew
EntryRead == TableRead[CHOOSE i \in DOMAIN TableRead :
                          TableRead[i].name = last.args.crew_name]

\* the files beside the manifest the latest call read
FilesRead == fs.cfg[last.args.dir.place][last.args.dir.name].files

\* xs is ys with some elements left out, the order kept
RECURSIVE IsSubsequence(_, _)
IsSubsequence(xs, ys) ==
    IF xs = << >> THEN TRUE
    ELSE IF ys = << >> THEN FALSE
    ELSE IF Head(xs) = Head(ys) THEN IsSubsequence(Tail(xs), Tail(ys))
    ELSE IsSubsequence(xs, Tail(ys))

\* the entry of the asked crew names an agents file and a tasks file
EntryNamesFiles == CrewInTable /\ {"agents", "tasks"} \subseteq EntryRead.keys

\* C16: for a crew of the manifest, whose entry names an agents file and a
\* tasks file, get_crew_config returns, also when the agents file or the
\* tasks file is missing, and then with an empty
\* mapping in its place; knowledge_paths are the declared knowledge paths
\* that exist, joined to the configuration directory, in declared order,
\* as many times as declared, and the others are left out
C16_MissingFilesAndKnowledge ==
    (GotManifest /\ EntryNamesFiles) =>
        LET declared == IF EntryRead.has_knowledge THEN EntryRead.knowledge
                        ELSE << >>
            kept == last.value.knowledge_paths
        IN /\ last.status = "returned"
           /\ EntryRead.agents \notin FilesRead => last.value.agents = EmptyMapping
           /\ EntryRead.tasks \notin FilesRead => last.value.tasks = EmptyMapping
           /\ EntryRead.agents \in FilesRead => last.value.agents # EmptyMapping
           /\ \A i \in DOMAIN kept :
                 /\ kept[i].dir = last.args.dir
                 /\ kept[i].rel \in FilesRead
           /\ IsSubsequence([i \in DOMAIN kept |-> kept[i].rel], declared)
           /\ Len(kept) = Cardinality({i \in DOMAIN declared :
                                         declared[i] \in FilesRead})

\* no agents file and no tasks file, and of two declared knowledge paths
\* only the second exists
C16_Witness ==
    /\ GotManifest /\ EntryNamesFiles
    /\ last.status = "returned"
    /\ FilesRead = {"knowledge/a.md"}
    /\ EntryRead.knowledge = << "knowledge/b.md", "knowledge/a.md" >>
    /\ Len(last.value.knowledge_paths) = 1

(***************************************************************************)
(* Framework dispatch: detect_framework and decompose_crew.                *)
(***************************************************************************)
\* the frameworks in the order of auto-detection (CrewAI > LangGraph >
\* Strands)
FRAMEWORK_PRIORITY == << "crewai", "langgraph", "strands" >>
Frameworks == Range(FRAMEWORK_PRIORITY)

is_framework_available(inst, framework) == framework \in inst

\* RuntimeError("No AI frameworks installed ...")
NoFrameworksError ==
    [type |-> "RuntimeError", msg |-> << "No AI frameworks installed" >>]

\* a detection that takes the preferred framework without looking whether
\* it is installed
detect_framework_trusting(inst, preferred) ==
    IF Truthy(preferred)
    THEN [ok |-> TRUE, value |-> preferred, error |-> NoError]
    ELSE LET hits == {i \in DOMAIN FRAMEWORK_PRIORITY :
                        is_framework_available(inst, FRAMEWORK_PRIORITY[i])}
         IN IF hits = {}
            THEN [ok |-> FALSE, value |-> NoneV, error |-> NoFrameworksError]
            ELSE [ok |-> TRUE,
                  value |-> FRAMEWORK_PRIORITY[CHOOSE i \in hits :
                                                 \A j \in hits : i <= j],
                  error |-> NoError]

\* detect_framework(preferred): the preferred framework if it is installed,
\* else the first installed one in priority order, else an error
detect_framework(inst, preferred) ==
    IF Truthy(preferred) /\ is_framework_available(inst, preferred)
    THEN [ok |-> TRUE, value |-> preferred, error |-> NoError]
    ELSE LET hits == {i \in DOMAIN FRAMEWORK_PRIORITY :
                        is_framework_available(inst, FRAMEWORK_PRIORITY[i])}
         IN IF hits = {}
            THEN [ok |-> FALSE, value |-> NoneV, error |-> NoFrameworksError]
            ELSE [ok |-> TRUE,
                  value |-> FRAMEWORK_PRIORITY[CHOOSE i \in hits :
                                                 \A j \in hits : i <= j],
                  error |-> NoError]

\* ValueError: the crew requires one framework and another was requested
ConflictError(required, framework) ==
    [type |-> "ValueError",
     msg |-> << "requires ", required, " but ", framework, " was requested" >>]

\* RuntimeError: the crew requires a framework that is not installed
RequiredNotInstalledError(required) ==
    [type |-> "RuntimeError",
     msg |-> << "requires ", required, " but it is not installed" >>]

\* the outcome of a decompose_crew call: the adapter objects constructed in
\* it, in order, and the error raised
Decomposed(adapters, error) ==
    [ok |-> error = NoError, adapters |-> adapters, error |-> error]

\* a resolution in which an explicit request overrides the required tag
\* without a check
decompose_crew_request_wins(inst, required, framework, built) ==
    IF Truthy(framework)
    THEN IF built THEN Decomposed(<< framework >>, NoError)
         ELSE Decomposed(<< >>, [type |-> "RuntimeError",
                                 msg |-> << framework, " is not installed" >>])
    ELSE IF Truthy(required)
    THEN Decomposed(<< required >>, NoError)
    ELSE LET d == detect_framework(inst, NoneV) IN
         IF d.ok THEN Decomposed(<< d.value >>, NoError)
         ELSE Decomposed(<< >>, d.error)

\* decompose_crew(config, framework), config carrying required_framework:
\* the conflict check, the availability check of the required framework,
\* then the effective framework (explicit request, else required tag, else
\* auto-detected) and its adapter. `built` is whether the adapter of a
\* requested framework that is not installed gets constructed, which
\* nothing states
decompose_crew(inst, required, framework, built) ==
    IF Truthy(required) /\ Truthy(framework) /\ framework # required
    THEN Decomposed(<< >>, ConflictError(required, framework))
    ELSE IF Truthy(required) /\ ~is_framework_available(inst, required)
    THEN Decomposed(<< >>, RequiredNotInstalledError(required))
    ELSE IF Truthy(framework)
    THEN IF is_framework_available(inst, framework) \/ built
         THEN Decomposed(<< framework >>, NoError)
         ELSE Decomposed(<< >>, [type |-> "RuntimeError",
                                 msg |-> << framework, " is not installed" >>])
    ELSE IF Truthy(required)
    THEN Decomposed(<< required >>, NoError)
    ELSE LET d == detect_framework(inst, NoneV) IN
         IF d.ok THEN Decomposed(<< d.value >>, NoError)
         ELSE Decomposed(<< >>, d.error)

\* no framework, or one of the three
FrameworkChoice == {NoneV} \cup Frameworks

DetectFrameworkCall(preferred) ==
    /\ LET r == detect_framework(installed, preferred) IN
         last' = Call("detect_framework", [preferred |-> preferred],
                      IF r.ok THEN "returned" ELSE "raised",
                      r.value, r.error, FALSE)
    /\ UNCHANGED << cli_vars, crew_vars >>

DecomposeCrewCall(required, framework, built) ==
    /\ LET r == decompose_crew(installed, required, framework, built) IN
         last' = Call("decompose_crew",
                      [required |-> required, framework |-> framework],
                      IF r.ok THEN "returned" ELSE "raised",
                      r.adapters, r.error, FALSE)
    /\ UNCHANGED << cli_vars, crew_vars >>

FwInit ==
    /\ environ = {OtherEnvName}
    /\ profiles_file = "absent"
    /\ profiles_cache = NoCache
    /\ runner = NoRunner
    /\ pc = "idle"
    /\ procs = << >>
    /\ last = NoCall
    /\ fs = NoFs
    /\ installed \in SUBSET Frameworks
    /\ mgr = NoManager
    /\ threads = << >>
    /\ gather = NoGather
    /\ crawl = NoCrawl

FwNext ==
    \/ \E preferred \in FrameworkChoice : DetectFrameworkCall(preferred)
    \/ \E required \in FrameworkChoice, framework \in FrameworkChoice,
          built \in BOOLEAN :
          DecomposeCrewCall(required, framework, built)

\* framework selection with every set of installed frameworks
FwSpec == FwInit /\ [][FwNext]_vars

\* the first framework of the priority order that is installed is f
FirstInstalled(f) ==
    \E i \in DOMAIN FRAMEWORK_PRIORITY :
        /\ FRAMEWORK_PRIORITY[i] = f
        /\ f \in installed
        /\ \A j \in 1..(i - 1) : FRAMEWORK_PRIORITY[j] \notin installed

\* C17: detect_framework returns the preferred framework when it is
\* installed; otherwise, with or without a preferred one, the first
\* installed framework in the order crewai, langgraph, strands; and it
\* raises "No AI frameworks installed" exactly when none is installed
C17_DetectFramework ==
    last.op = "detect_framework" =>
        /\ (last.status = "raised") = (installed \cap Frameworks = {})
        /\ last.status = "raised" =>
              /\ last.error.type = "RuntimeError"
              /\ Contains(last.error.msg, << "No AI frameworks installed" >>)
        /\ last.status = "returned" =>
              IF last.args.preferred \in installed
              THEN last.value = last.args.preferred
              ELSE FirstInstalled(last.value)

\* crewai is preferred and missing, and langgraph is found before strands
C17_Witness ==
    /\ last.op = "detect_framework"
    /\ last.args.preferred = "crewai"
    /\ installed = {"langgraph", "strands"}
    /\ last.value = "langgraph"

\* C18: decompose_crew raises the conflict error when the configuration
\* requires a framework and another one is requested, and the
\* not-installed error when the required framework is not installed, each
\* time without having constructed an adapter; and whenever it constructs
\* an adapter it is one, of the requested framework, else of the required
\* one, else of the detected one
C18_DecomposeCrew ==
    last.op = "decompose_crew" =>
        LET required == last.args.required
            framework == last.args.framework
            conflict == required # NoneV /\ framework # NoneV
                          /\ framework # required
            missing == required # NoneV /\ required \notin installed
        IN /\ conflict =>
                /\ last.status = "raised"
                /\ last.error.type = "ValueError"
                /\ Contains(last.error.msg, << required >>)
                /\ Contains(last.error.msg, << framework, " was requested" >>)
                /\ last.value = << >>
           /\ (missing /\ ~conflict) =>
                /\ last.status = "raised"
                /\ last.error.type = "RuntimeError"
                /\ Contains(last.error.msg, << "requires ", required >>)
                /\ last.value = << >>
           /\ last.status = "raised" => last.value = << >>
           /\ last.status = "returned" =>
                /\ Len(last.value) = 1
                /\ IF framework # NoneV THEN last.value[1] = framework
                   ELSE IF required # NoneV THEN last.value[1] = required
                   ELSE FirstInstalled(last.value[1])
           /\ (~conflict /\ ~missing
                 /\ (framework # NoneV => framework \in installed)
                 /\ (framework = NoneV /\ required = NoneV => installed # {}))
                => last.status = "returned"

\* a conflict reported although both frameworks are installed
C18_Witness ==
    /\ last.op = "decompose_crew"
    /\ last.args.required = "crewai"
    /\ last.args.framework = "langgraph"
    /\ installed = Frameworks
    /\ last.status = "raised"
    /\ last.value = << >>

(***************************************************************************)
(* ManagerAgent: delegate on worker threads, delegate_parallel.            *)
(***************************************************************************)
\* the most delegations of one delegate_parallel call
MaxDelegations == 2

\* the crews dict of the manager: role name to crew name, two roles
ManagerCrews == << [role |-> "design", crew |-> "test_crew"],
                   [role |-> "assets", crew |-> "other_crew"] >>
Roles == {"design", "assets", "unknown"}

\* the inputs of the delegations, by position
TaskInputs == << "Create design", "Generate assets", "Review" >>

\* ManagerAgent(crews, package_name, workspace_root)
NewManager(crews, package_name) ==
    [NoManager EXCEPT !.some = TRUE, !.crews = crews,
                      !.package_name = package_name]

\* crew_role in self.crews, self.crews[crew_role], list(self.crews.keys())
HasRole(crews, role) == \E i \in DOMAIN crews : crews[i].role = role
CrewOfRole(crews, role) ==
    crews[CHOOSE i \in DOMAIN crews : crews[i].role = role].crew
RoleNames(crews) == [i \in DOMAIN crews |-> crews[i].role]

\* the order in which a packages dict is iterated: the entries of
\* packages/ first, the workspace root's name last
NameOrder == << "hybrid", "strata", "ws", "default" >>
PackageNames(packages) == SelectSeq(NameOrder, LAMBDA n : n \in DOMAIN packages)

\* `for pkg_dir in packages.values(): try: get_crew_config(...); break;
\* except ValueError: continue`, and the ValueError when nothing is found
RECURSIVE FindCrew(_, _, _, _, _)
FindCrew(filesys, packages, names, i, crew_name) ==
    IF i > Len(names)
    THEN [ok |-> FALSE, value |-> << >>,
          error |-> [type |-> "ValueError",
                     msg |-> << "Crew '", crew_name,
                                "' not found in any package. Available packages: [" >>
                             \o Join(", ", names) \o << "]" >>]]
    ELSE LET r == get_crew_config(filesys, packages[names[i]], crew_name) IN
         IF r.ok \/ r.error.type # "ValueError" THEN r
         ELSE FindCrew(filesys, packages, names, i + 1, crew_name)

\* lines 126-149 of delegate: the configuration of the crew, from the
\* manager's package or from the first package that has the crew
ResolveConfig(filesys, packages, package_name, crew_name) ==
    IF Truthy(package_name)
    THEN IF package_name \notin DOMAIN packages
         THEN [ok |-> FALSE, value |-> << >>,
               error |-> [type |-> "ValueError",
                          msg |-> << "Package '", package_name,
                                     "' not found. Available: [" >>
                                  \o Join(", ", PackageNames(packages))
                                  \o << "]" >>]]
         ELSE get_crew_config(filesys, packages[package_name], crew_name)
    ELSE FindCrew(filesys, packages, PackageNames(packages), 1, crew_name)

\* what run_crew_auto(config, inputs) returns: the output of that crew for
\* those inputs
RunOutput(config, inputs) == [crew |-> config.name, task |-> inputs]

\* a _get_packages that discovers on every call
PackagesCacheMissAlways(cache) == TRUE

\* `if self._packages_cache is None`
PackagesCacheMiss(cache) == ~cache.some

\* a delegate call on a worker thread, about to start
NewThread(role, inputs) ==
    [role |-> role, inputs |-> inputs, pc |-> "start", crew_name |-> NoneV,
     packages |-> << >>, config |-> << >>, result |-> << >>,
     error |-> NoError]

\* results in the order in which the delegations ended
GatherResultsAsCompleted(ths, finished) ==
    [k \in DOMAIN finished |-> ths[finished[k]].result]

\* asyncio.gather(*tasks): the results of the awaitables in the order of
\* the awaitables
GatherResults(ths, finished) == [i \in DOMAIN ths |-> ths[i].result]

\* the workspaces the manager runs on: both crews in one package, and the
\* crews in two packages with other files
MgrFs ==
    {[NoFs EXCEPT
        !.has_packages = TRUE,
        !.entries["hybrid"] = "dir",
        !.cfg["hybrid"][".crewai"] =
            ManifestDir(<< CrewEntry("test_crew", TRUE, << "knowledge/a.md" >>),
                           CrewEntry("other_crew", FALSE, << >>) >>,
                        {AgentsFile, TasksFile, "knowledge/a.md"})],
     [NoFs EXCEPT
        !.has_packages = TRUE,
        !.entries["hybrid"] = "dir",
        !.entries["strata"] = "dir",
        !.cfg["hybrid"][".crewai"] =
            ManifestDir(<< CrewEntry("other_crew", FALSE, << >>) >>, {}),
        !.cfg["strata"][".strands"] =
            ManifestDir(<< CrewEntry("test_crew", FALSE, << >>) >>,
                        {AgentsFile})]}

\* the thread of delegation t ends: its place in the order of completion
Finish(t) == gather' = [gather EXCEPT !.finished = Append(@, t)]

\* files of the workspace are changed by something else
WorkspaceChanges ==
    /\ mgr.some
    /\ \E f \in MgrFs \ {fs} : fs' = f
    /\ UNCHANGED << cli_vars, crawl, last, installed, mgr, threads, gather >>

\* delegate_parallel(delegations): one delegate_async, and so one delegate
\* call on a worker thread, for each delegation
DelegateParallelCall(roles) ==
    /\ mgr.some
    /\ gather.status = "none"
    /\ LET delegations == [i \in DOMAIN roles |->
                             [role |-> roles[i], inputs |-> TaskInputs[i]]]
       IN /\ threads' = [i \in DOMAIN roles |->
                           NewThread(roles[i], TaskInputs[i])]
          /\ gather' = [delegations |-> delegations, finished |-> << >>,
                        results |-> << >>, error |-> NoError,
                        status |-> "pending"]
    /\ UNCHANGED << cli_vars, crawl, last, fs, installed, mgr >>

\* a delegate that never finds a crew in the crew-config cache
ConfigCacheHitNever(cache, crew_name) == FALSE

\* `if crew_name in self._crew_config_cache`
ConfigCacheHit(cache, crew_name) == crew_name \in DOMAIN cache

\* delegate, lines 111-123: the role, and the crew-config cache
DelegateStart(t) ==
    /\ threads[t].pc = "start"
    /\ IF ~HasRole(mgr.crews, threads[t].role)
       THEN /\ threads' = [threads EXCEPT
                 ![t].pc = "raised",
                 ![t].error = [type |-> "ValueError",
                               msg |-> << "Unknown crew role '", threads[t].role,
                                          "'. Available: [" >>
                                       \o Join(", ", RoleNames(mgr.crews))
                                       \o << "]" >>]]
            /\ Finish(t)
       ELSE LET crew_name == CrewOfRole(mgr.crews, threads[t].role) IN
            /\ IF ConfigCacheHit(mgr.crew_config_cache, crew_name)
               THEN threads' = [threads EXCEPT
                      ![t].crew_name = crew_name,
                      ![t].config = mgr.crew_config_cache[crew_name],
                      ![t].pc = "run"]
               ELSE threads' = [threads EXCEPT
                      ![t].crew_name = crew_name,
                      ![t].pc = "get_packages"]
            /\ UNCHANGED gather
    /\ UNCHANGED << cli_vars, crawl, last, fs, installed, mgr >>

\* _get_packages, line 88: the test of the cache
GetPackagesCheck(t) ==
    /\ threads[t].pc = "get_packages"
    /\ IF PackagesCacheMiss(mgr.packages_cache)
       THEN threads' = [threads EXCEPT ![t].pc = "discover"]
       ELSE threads' = [threads EXCEPT
              ![t].packages = mgr.packages_cache.packages,
              ![t].pc = "lookup"]
    /\ UNCHANGED << cli_vars, crawl, last, fs, installed, mgr, gather >>

\* _get_packages, lines 89-90: discovery, and the assignment of the cache
GetPackagesDiscover(t) ==
    /\ threads[t].pc = "discover"
    /\ LET found == discover_packages(fs, NoneV) IN
         /\ mgr' = [mgr EXCEPT
               !.packages_cache = [some |-> TRUE, packages |-> found,
                                   writes |-> @.writes + 1]]
         /\ threads' = [threads EXCEPT ![t].packages = found,
                                       ![t].pc = "lookup"]
    /\ UNCHANGED << cli_vars, crawl, last, fs, installed, gather >>

\* a delegate that enters the crew in the cache before it has looked it up
DelegateLookupCaching(t) ==
    /\ threads[t].pc = "lookup"
    /\ LET r == ResolveConfig(fs, threads[t].packages, mgr.package_name,
                              threads[t].crew_name)
           k == threads[t].crew_name
       IN /\ mgr' = [mgr EXCEPT
                 !.crew_config_cache =
                     [x \in DOMAIN @ \cup {k} |->
                        IF x = k THEN r.value ELSE mgr.crew_config_cache[x]]]
          /\ IF r.ok
             THEN /\ threads' = [threads EXCEPT ![t].config = r.value,
                                                ![t].pc = "store"]
                  /\ UNCHANGED gather
             ELSE /\ threads' = [threads EXCEPT ![t].error = r.error,
                                                ![t].pc = "raised"]
                  /\ Finish(t)
    /\ UNCHANGED << cli_vars, crawl, last, fs, installed >>

\* delegate, lines 126-149: the configuration of the crew
DelegateLookup(t) ==
    /\ threads[t].pc = "lookup"
    /\ LET r == ResolveConfig(fs, threads[t].packages, mgr.package_name,
                              threads[t].crew_name)
       IN IF r.ok
          THEN /\ threads' = [threads EXCEPT ![t].config = r.value,
                                             ![t].pc = "store"]
               /\ UNCHANGED gather
          ELSE /\ threads' = [threads EXCEPT ![t].error = r.error,
                                             ![t].pc = "raised"]
               /\ Finish(t)
    /\ UNCHANGED << cli_vars, crawl, last, fs, installed, mgr >>

\* delegate, line 152: self._crew_config_cache[crew_name] = crew_config
DelegateStore(t) ==
    /\ threads[t].pc = "store"
    /\ LET k == threads[t].crew_name
           keys == DOMAIN mgr.crew_config_cache \cup {k}
       IN mgr' = [mgr EXCEPT
            !.crew_config_cache =
                [x \in keys |-> IF x = k THEN threads[t].config
                                ELSE mgr.crew_config_cache[x]],
            !.config_writes =
                [x \in keys |->
                   IF x = k
                   THEN (IF k \in DOMAIN mgr.config_writes
                         THEN mgr.config_writes[k] ELSE 0) + 1
                   ELSE mgr.config_writes[x]]]
    /\ threads' = [threads EXCEPT ![t].pc = "run"]
    /\ UNCHANGED << cli_vars, crawl, last, fs, installed, gather >>

\* delegate, lines 123 and 153: run_crew_auto(config, inputs, framework)
\* with no framework requested and none required by the configuration
\* returns the crew's output, or raises when no framework is found for it
DelegateRun(t) ==
    /\ threads[t].pc = "run"
    /\ LET r == decompose_crew(installed, NoneV, NoneV, TRUE) IN
       IF r.ok
       THEN threads' = [threads EXCEPT
              ![t].result = RunOutput(threads[t].config, threads[t].inputs),
              ![t].pc = "done"]
       ELSE threads' = [threads EXCEPT
              ![t].error = r.error,
              ![t].pc = "raised"]
    /\ Finish(t)
    /\ UNCHANGED << cli_vars, crawl, last, fs, installed, mgr >>

\* await asyncio.gather(*tasks): every delegation has ended with a result
GatherReturns ==
    /\ gather.status = "pending"
    /\ \A t \in DOMAIN threads : threads[t].pc = "done"
    /\ gather' = [gather EXCEPT
          !.status = "returned",
          !.results = GatherResults(threads, gather.finished)]
    /\ UNCHANGED << cli_vars, crawl, last, fs, installed, mgr, threads >>

\* a gather that stops the delegations still running when one has raised
GatherRaisesCancelling ==
    /\ gather.status = "pending"
    /\ \E k \in DOMAIN gather.finished :
          /\ threads[gather.finished[k]].pc = "raised"
          /\ gather' = [gather EXCEPT
                !.status = "raised",
                !.error = threads[gather.finished[k]].error]
    /\ threads' = [t \in DOMAIN threads |->
                     IF threads[t].pc \in {"done", "raised"} THEN threads[t]
                     ELSE [threads[t] EXCEPT !.pc = "cancelled"]]
    /\ UNCHANGED << cli_vars, crawl, last, fs, installed, mgr >>

\* await asyncio.gather(*tasks): the first exception of a delegation is
\* raised to the caller while the other threads run on
GatherRaises ==
    /\ gather.status = "pending"
    /\ \E k \in DOMAIN gather.finished :
          /\ threads[gather.finished[k]].pc = "raised"
          /\ \A j \in 1..(k - 1) : threads[gather.finished[j]].pc = "done"
          /\ gather' = [gather EXCEPT
                !.status = "raised",
                !.error = threads[gather.finished[k]].error]
    /\ UNCHANGED << cli_vars, crawl, last, fs, installed, mgr, threads >>

MgrInit ==
    /\ environ = {OtherEnvName}
    /\ profiles_file = "absent"
    /\ profiles_cache = NoCache
    /\ runner = NoRunner
    /\ pc = "idle"
    /\ procs = << >>
    /\ last = NoCall
    /\ fs \in MgrFs
    /\ installed \in {Frameworks, {}}
    /\ mgr \in {NewManager(ManagerCrews, pn) : pn \in {NoneV, "hybrid", "nowhere"}}
    /\ threads = << >>
    /\ gather = NoGather
    /\ crawl = NoCrawl

MgrNext ==
    \/ WorkspaceChanges
    \/ \E roles \in SeqsUpTo(Roles, MaxDelegations) : DelegateParallelCall(roles)
    \/ \E t \in DOMAIN threads :
          \/ DelegateStart(t)
          \/ GetPackagesCheck(t)
          \/ GetPackagesDiscover(t)
          \/ DelegateLookup(t)
          \/ DelegateStore(t)
          \/ DelegateRun(t)
    \/ GatherReturns
    \/ GatherRaises

\* one manager and one delegate_parallel call, whose delegate calls run on
\* threads in any interleaving, one after the other included
MgrSpec == MgrInit /\ [][MgrNext]_vars

\* C19: when delegate_parallel returns, it returns one result for each
\* delegation and result i is the output of the crew of delegation i for
\* the inputs of delegation i, in whatever order the delegations ended
C19_ResultsInInputOrder ==
    gather.status = "returned" =>
        /\ Len(gather.results) = Len(gather.delegations)
        /\ \A i \in DOMAIN gather.delegations :
              /\ gather.results[i].task = gather.delegations[i].inputs
              /\ \E j \in DOMAIN mgr.crews :
                    /\ mgr.crews[j].role = gather.delegations[i].role
                    /\ mgr.crews[j].crew = gather.results[i].crew

\* two delegations to different crews, the second of which ended first
C19_Witness ==
    /\ gather.status = "returned"
    /\ gather.finished = << 2, 1 >>
    /\ gather.results[1] = [crew |-> "test_crew", task |-> "Create design"]
    /\ gather.results[2] = [crew |-> "other_crew", task |-> "Generate assets"]

\* C20 as stated: the package-path cache and every entry of the
\* crew-config cache are assigned at most once
C20_Original ==
    /\ mgr.packages_cache.writes <= 1
    /\ \A k \in DOMAIN mgr.config_writes : mgr.config_writes[k] <= 1

\* one step, as the amended C20 allows it
C20_Step ==
    /\ mgr.packages_cache.some => mgr'.packages_cache.some
    /\ \A k \in DOMAIN mgr.crew_config_cache : k \in DOMAIN mgr'.crew_config_cache
    /\ \A t \in DOMAIN threads :
          (DOMAIN threads' = DOMAIN threads /\ threads'[t] # threads[t]) =>
             /\ (threads[t].pc = "get_packages" /\ mgr.packages_cache.some) =>
                   /\ mgr' = mgr
                   /\ threads'[t].pc = "lookup"
                   /\ threads'[t].packages = mgr.packages_cache.packages
             /\ (threads[t].pc = "start"
                   /\ \E j \in DOMAIN mgr.crews :
                         /\ mgr.crews[j].role = threads[t].role
                         /\ mgr.crews[j].crew \in DOMAIN mgr.crew_config_cache) =>
                   /\ mgr' = mgr
                   /\ threads'[t].pc = "run"
                   /\ threads'[t].config
                        = mgr.crew_config_cache[threads'[t].crew_name]
    /\ (mgr.packages_cache.some /\ mgr'.packages_cache # mgr.packages_cache) =>
          Len(threads) >= 2
    /\ \A k \in DOMAIN mgr.crew_config_cache :
          mgr'.config_writes[k] # mgr.config_writes[k] => Len(threads) >= 2

\* C20, amended: the package-path cache and the entries of the
\* crew-config cache are never invalidated: once populated they are never
\* emptied or removed, and a delegate call that finds one populated uses
\* its value and does not assign it. A populated cache or entry is
\* assigned again, the last write winning, only by a delegate call that
\* runs concurrently with others and found it unpopulated when it tested it
C20_CachesNeverInvalidated == [][C20_Step]_vars

\* two concurrent delegations of the same crew have both populated the
\* package-path cache and the crew's entry
C20_Witness ==
    /\ gather.status = "returned"
    /\ mgr.packages_cache.writes = 2
    /\ "test_crew" \in DOMAIN mgr.config_writes
    /\ mgr.config_writes["test_crew"] = 2

(***************************************************************************)
(* get_crew_config: what counts as not found.                              *)
(***************************************************************************)
\* C30: get_crew_config does not report a crew as not found when the crew
\* name is a key of the manifest's crew table, whatever the value of its
\* entry
C30_KeyOfTableIsFound ==
    (GotManifest /\ CrewInTable) =>
        ~(/\ last.status = "raised"
          /\ last.error = CrewNotFoundError(last.args.crew_name, TableRead))

(***************************************************************************)
(* ManagerAgent: delegate calls one after the other, delegate_sequential.  *)
(***************************************************************************)
\* what a package's manifest may hold for test_crew: nothing, an empty
\* entry, an entry without a tasks key, a whole entry
SeqCrewEntries ==
    {<< >>,
     << PartialEntry("test_crew", {}, << >>) >>,
     << PartialEntry("test_crew", {"description", "agents"}, << >>) >>,
     << CrewEntry("test_crew", FALSE, << >>) >>}

\* the workspaces of the calls: two packages, each with a manifest that has
\* test_crew in one of those ways; other_crew is in the second package
SeqFs ==
    {[NoFs EXCEPT
        !.has_packages = TRUE,
        !.entries["hybrid"] = "dir",
        !.entries["strata"] = "dir",
        !.cfg["hybrid"][".crewai"] = ManifestDir(e1, {AgentsFile}),
        !.cfg["strata"][".strands"] =
            ManifestDir(e2 \o << CrewEntry("other_crew", FALSE, << >>) >>,
                        {AgentsFile, TasksFile})] :
        e1 \in SeqCrewEntries, e2 \in SeqCrewEntries}

\* a delegate call that has ended, by returning or by raising
Ended(th) == th.pc \in {"done", "raised"}

\* the frame of a delegate call at its first line; `cache_before` and
\* `writes_before` keep what the caches were when the call began
StartedCall(role, inputs) ==
    NewThread(role, inputs)
      @@ [cache_before |-> mgr.crew_config_cache,
          writes_before |-> mgr.packages_cache.writes]

\* files of the workspace are changed by something else
SeqWorkspaceChanges ==
    /\ mgr.some
    /\ \E f \in SeqFs \ {fs} : fs' = f
    /\ UNCHANGED << cli_vars, crawl, last, installed, mgr, threads, gather >>

\* manager.delegate(role, inputs), called by a caller that makes its calls
\* one after the other, whether the one before returned or raised
DelegateCall(role) ==
    /\ mgr.some
    /\ gather.status = "none"
    /\ Len(threads) < MaxDelegations
    /\ \A t \in DOMAIN threads : Ended(threads[t])
    /\ threads' = Append(threads,
                         StartedCall(role, TaskInputs[Len(threads) + 1]))
    /\ UNCHANGED << cli_vars, crawl, last, fs, installed, mgr, gather >>

\* delegate_sequential(delegations), lines 225-226: results = []
DelegateSequentialCall(roles) ==
    /\ mgr.some
    /\ gather.status = "none"
    /\ threads = << >>
    /\ gather' = [NoGather EXCEPT
          !.delegations = [i \in DOMAIN roles |->
                             [role |-> roles[i], inputs |-> TaskInputs[i]]],
          !.status = "sequential"]
    /\ UNCHANGED << cli_vars, crawl, last, fs, installed, mgr, threads >>

\* a loop that calls the next delegate without waiting for the one before
PreviousStarted(ths) == TRUE

\* the for loop of delegate_sequential reaches its next iteration when the
\* delegate call of this one has returned
PreviousReturned(ths) == \A t \in DOMAIN ths : ths[t].pc = "done"

\* delegate_sequential, lines 226-227: self.delegate(crew_role, inputs,
\* framework) for the next delegation of the list
SequentialDelegate ==
    /\ gather.status = "sequential"
    /\ Len(threads) < Len(gather.delegations)
    /\ PreviousReturned(threads)
    /\ LET d == gather.delegations[Len(threads) + 1] IN
         threads' = Append(threads, StartedCall(d.role, d.inputs))
    /\ UNCHANGED << cli_vars, crawl, last, fs, installed, mgr, gather >>

\* delegate_sequential, line 228: results.append(result), in call order
SequentialResults(ths) == [i \in DOMAIN ths |-> ths[i].result]

\* delegate_sequential, line 229: return results
SequentialReturns ==
    /\ gather.status = "sequential"
    /\ Len(threads) = Len(gather.delegations)
    /\ \A t \in DOMAIN threads : threads[t].pc = "done"
    /\ gather' = [gather EXCEPT !.status = "returned",
                                !.results = SequentialResults(threads)]
    /\ UNCHANGED << cli_vars, crawl, last, fs, installed, mgr, threads >>

\* delegate_sequential, line 227: an exception of delegate is not caught
\* and leaves the loop
SequentialRaises ==
    /\ gather.status = "sequential"
    /\ \E t \in DOMAIN threads :
          /\ threads[t].pc = "raised"
          /\ gather' = [gather EXCEPT !.status = "raised",
                                      !.error = threads[t].error]
    /\ UNCHANGED << cli_vars, crawl, last, fs, installed, mgr, threads >>

SeqInit ==
    /\ environ = {OtherEnvName}
    /\ profiles_file = "absent"
    /\ profiles_cache = NoCache
    /\ runner = NoRunner
    /\ pc = "idle"
    /\ procs = << >>
    /\ last = NoCall
    /\ fs \in SeqFs
    /\ installed \in {Frameworks, {}}
    /\ mgr \in {NewManager(ManagerCrews, pn) : pn \in {NoneV, "strata", "nowhere"}}
    /\ threads = << >>
    /\ gather = NoGather
    /\ crawl = NoCrawl

SeqNext ==
    \/ SeqWorkspaceChanges
    \/ \E role \in Roles : DelegateCall(role)
    \/ \E roles \in SeqsUpTo(Roles, MaxDelegations) : DelegateSequentialCall(roles)
    \/ SequentialDelegate
    \/ \E t \in DOMAIN threads :
          \/ DelegateStart(t)
          \/ GetPackagesCheck(t)
          \/ GetPackagesDiscover(t)
          \/ DelegateLookup(t)
          \/ DelegateStore(t)
          \/ DelegateRun(t)
    \/ SequentialReturns
    \/ SequentialRaises

\* one manager whose delegate calls are made one after the other, by the
\* caller itself or by one delegate_sequential call
SeqSpec == SeqInit /\ [][SeqNext]_vars

\* the call has resolved the configuration of its crew, from the cache or
\* by looking it up
Resolved(th) == th.config # << >>

\* the call began with the configuration of its crew in the cache
BeganCached(th) ==
    /\ HasRole(mgr.crews, th.role)
    /\ CrewOfRole(mgr.crews, th.role) \in DOMAIN th.cache_before

\* C21: in a sequence of delegate calls made one after the other on one
\* manager, package discovery runs at most once and a call that begins
\* with the package cache set never discovers; once a call has resolved
\* the configuration of a crew, every later call for that crew begins with
\* it in the cache, never reaches the lookup (get_crew_config) or the
\* store, and runs with that same configuration, whatever has become of
\* the workspace since
C21_CachesServeLaterCalls ==
    /\ mgr.packages_cache.writes <= 1
    /\ \A k \in DOMAIN mgr.config_writes : mgr.config_writes[k] <= 1
    /\ \A t \in DOMAIN threads :
          LET th == threads[t] IN
          /\ th.writes_before >= 1 =>
                /\ th.pc # "discover"
                /\ th.pc = "lookup" => th.packages = mgr.packages_cache.packages
          /\ BeganCached(th) =>
                /\ th.pc \notin {"get_packages", "discover", "lookup", "store"}
                /\ th.pc \in {"run", "done"} =>
                      th.config = th.cache_before[CrewOfRole(mgr.crews, th.role)]
          /\ \A s \in 1..(t - 1) :
                (Resolved(threads[s]) /\ threads[s].role = th.role) =>
                   /\ BeganCached(th)
                   /\ th.cache_before[threads[s].crew_name] = threads[s].config

\* two calls for the same crew have returned after one discovery, and the
\* crew has meanwhile gone from the manifest of the manager's package
C21_Witness ==
    /\ Len(threads) = 2
    /\ threads[1].pc = "done" /\ threads[2].pc = "done"
    /\ threads[1].role = "design" /\ threads[2].role = "design"
    /\ threads[2].result.crew = "test_crew"
    /\ mgr.package_name = "strata"
    /\ mgr.packages_cache.writes = 1
    /\ ~get_crew_config(fs, ConfigPath("strata", ".strands"), "test_crew").ok

\* the crew name is a key of the crew table of the manifest in dir
HasCrew(filesys, dir, crew_name) ==
    LET m == load_manifest(filesys, dir) IN
    /\ m.ok
    /\ \E i \in DOMAIN CrewTable(m.manifest) :
          CrewTable(m.manifest)[i].name = crew_name

\* the lookup of a call of a manager without package_name: when it goes on
\* to run, its configuration is that of the first discovered package that
\* has the crew, and it raises "not found in any package" exactly when no
\* discovered package has the crew
C22_Step ==
    \A t \in DOMAIN threads :
       (/\ mgr.package_name = NoneV
        /\ threads[t].pc = "lookup"
        /\ DOMAIN threads' = DOMAIN threads
        /\ threads'[t].pc # "lookup") =>
          LET th == threads[t]
              names == PackageNames(th.packages)
              holders == {i \in DOMAIN names :
                            HasCrew(fs, th.packages[names[i]], th.crew_name)}
              first == CHOOSE i \in holders : \A j \in holders : i <= j
          IN /\ threads'[t].pc = "store" =>
                   /\ holders # {}
                   /\ threads'[t].config
                        = get_crew_config(fs, th.packages[names[first]],
                                          th.crew_name).value
             /\ (/\ threads'[t].pc = "raised"
                 /\ Contains(threads'[t].error.msg,
                             << "' not found in any package. Available packages: [" >>))
                   <=> holders = {}

\* C22: a delegate call of a manager without package_name tries the
\* discovered packages in discovery order and runs the crew with the
\* configuration of the first package that contains the crew; it fails
\* with the crew-not-found-in-any-package error, and runs no crew, exactly
\* when no discovered package contains the crew
C22_FirstPackageWithCrew == [][C22_Step]_vars

\* C23: delegate_sequential calls delegate for the delegations in list
\* order, one at a time: whenever call i+1 has begun, call i has
\* returned, so no call begins after one that raised; when it returns, it
\* returns one output for each delegation, in list order; when a call
\* raises, delegate_sequential raises that error
C23_OneAtATimeInOrder ==
    gather.status # "none" =>
        /\ Len(threads) <= Len(gather.delegations)
        /\ \A t \in DOMAIN threads :
              /\ threads[t].role = gather.delegations[t].role
              /\ threads[t].inputs = gather.delegations[t].inputs
              /\ t < Len(threads) => threads[t].pc = "done"
        /\ gather.status = "returned" =>
              /\ Len(gather.results) = Len(gather.delegations)
              /\ \A i \in DOMAIN gather.delegations :
                    /\ gather.results[i].task = gather.delegations[i].inputs
                    /\ gather.results[i].crew
                         = CrewOfRole(mgr.crews, gather.delegations[i].role)
        /\ gather.status = "raised" =>
              /\ threads # << >>
              /\ threads[Len(threads)].pc = "raised"
              /\ gather.error = threads[Len(threads)].error
              /\ gather.results = << >>

\* of two delegations the first has raised, and delegate_sequential has
\* raised its error without beginning the second
C23_Witness ==
    /\ gather.status = "raised"
    /\ Len(gather.delegations) = 2
    /\ Len(threads) = 1
    /\ gather.delegations[2].role = "assets"
    /\ gather.error.type = "ValueError"

\* one step of a call, seen from the errors of resolution: a call raises
\* before it has a configuration only at line 112 (unknown role) or in lines
\* 126-149, it has then run no crew, the crew-config cache is what it was
\* when the call began, and for an unknown role so is the package cache;
\* a call that has reached run_crew_auto raises no error of resolution
C28_Step ==
    \A t \in DOMAIN threads :
       (DOMAIN threads' = DOMAIN threads /\ threads'[t] # threads[t]) =>
          /\ (threads'[t].pc = "raised" /\ ~Resolved(threads[t])) =>
                /\ threads[t].pc \in {"start", "lookup"}
                /\ threads'[t].result = << >>
                /\ mgr'.crew_config_cache = threads[t].cache_before
                /\ mgr'.config_writes = mgr.config_writes
                /\ threads[t].pc = "start" =>
                      /\ Contains(threads'[t].error.msg, << "Unknown crew role '" >>)
                      /\ mgr'.packages_cache = mgr.packages_cache
                      /\ mgr.packages_cache.writes = threads[t].writes_before
          /\ (threads'[t].pc = "raised" /\ Resolved(threads[t])) =>
                /\ threads[t].pc = "run"
                /\ threads'[t].error.type = "RuntimeError"
          /\ ~HasRole(mgr.crews, threads[t].role) => threads'[t].pc = "raised"

\* C28: a delegate call that fails while resolving the configuration
\* (unknown role, package not found, crew not found) runs no crew and
\* leaves the crew-config cache as it was before the call; for an unknown
\* role it performs no package discovery either
C28_FailedResolutionLeavesCache == [][C28_Step]_vars

\* after a call that cached other_crew, a call for test_crew has failed
\* with crew-not-found-in-any-package, and only other_crew is cached
C28_Witness ==
    /\ Len(threads) = 2
    /\ threads[1].pc = "done"
    /\ threads[2].pc = "raised"
    /\ Contains(threads[2].error.msg, << "' not found in any package. Available packages: [" >>)
    /\ threads[2].result = << >>
    /\ DOMAIN mgr.crew_config_cache = {"other_crew"}
    /\ mgr.packages_cache.writes = 1

(***************************************************************************)
(* delegate_parallel: all or nothing, and the threads run on.              *)
(***************************************************************************)
\* the next statement of the delegate call of delegation t on its worker
\* thread
ThreadStep(t) ==
    /\ t \in DOMAIN threads
    /\ \/ DelegateStart(t)
       \/ GetPackagesCheck(t)
       \/ GetPackagesDiscover(t)
       \/ DelegateLookup(t)
       \/ DelegateStore(t)
       \/ DelegateRun(t)

\* the executor runs every call submitted to it: a worker thread that can
\* take its next step takes it in the end
MgrLiveSpec ==
    MgrInit /\ [][MgrNext]_vars
            /\ \A t \in 1..MaxDelegations : WF_vars(ThreadStep(t))

\* what delegate_parallel has given its caller is whole: a returned list
\* has one output for each delegation, all of which returned, and a raised
\* error is the error of a delegation that raised, with no list returned
WholeOrError ==
    /\ gather.status = "returned" =>
          /\ Len(gather.results) = Len(gather.delegations)
          /\ \A t \in DOMAIN threads : threads[t].pc = "done"
          /\ \A i \in DOMAIN gather.results : gather.results[i] # << >>
    /\ gather.status = "raised" =>
          /\ gather.results = << >>
          /\ \E t \in DOMAIN threads :
                /\ threads[t].pc = "raised"
                /\ gather.error = threads[t].error

\* every delegation submitted has run to its end
AllEnded ==
    /\ Len(threads) = Len(gather.delegations)
    /\ \A t \in DOMAIN threads : Ended(threads[t])

\* C29: delegate_parallel never returns a partial result, it returns one
\* output for each delegation or raises the error of a delegation that
\* failed; and after it has raised, the delegations that were submitted
\* still run to their end
C29_AllOrErrorAndOthersFinish ==
    /\ []WholeOrError
    /\ (gather.status = "raised") ~> AllEnded

\* delegate_parallel has raised the error of the first delegation, and the
\* second delegation has afterwards returned its output
C29_Witness ==
    /\ gather.status = "raised"
    /\ gather.finished = << 1, 2 >>
    /\ threads[1].pc = "raised"
    /\ gather.error = threads[1].error
    /\ threads[2].pc = "done"
    /\ threads[2].result # << >>

(***************************************************************************)
(* The command line: run, info, list-runners.                              *)
(***************************************************************************)
\* what a command has printed as JSON (nothing: the empty mapping) and the
\* exit code of the process; `traceback` is an exception that reached the
\* interpreter
NoJson == << >>
Exited(code, json) == [exit |-> code, json |-> json, traceback |-> FALSE]

\* an exception that no handler of the command catches: the interpreter
\* prints the traceback and the process exits with 1
Uncaught(error) == [exit |-> 1, json |-> NoJson, traceback |-> TRUE]

\* `if use_json: print(json.dumps(obj))`, the else branch prints text
JsonOr(use_json, obj) == IF use_json THEN obj ELSE NoJson

\* the object cmd_run prints for a failure
RunFailureJson(msg) == [success |-> FALSE, error |-> msg, duration_ms |-> "ms"]

\* the --file arguments: a file that is there and one that is not
InputFiles == {"tasks.md", "missing.md"}
FileExists(f) == f = "tasks.md"

\* get_cli_runner(profile, model): the LocalCLIRunner of that profile, made
\* in a process that has not loaded the profiles yet
get_cli_runner(pfile, profile) ==
    LET r == load_profiles(NoCache, pfile) IN
    IF ~r.ok THEN [ok |-> FALSE, error |-> r.error]
    ELSE IF ~HasKey(r.profiles, profile)
    THEN [ok |-> FALSE, error |-> UnknownProfileError(profile, r.profiles)]
    ELSE [ok |-> TRUE, error |-> NoError]

\* `except (...) as e:` of a command: the failure object and the exit code
\* of the handler for the exception types it names, the traceback for the
\* others
Handled(error, types, use_json, obj, code) ==
    IF error.type \in types THEN Exited(code, JsonOr(use_json, obj))
    ELSE Uncaught(error)

\* _cmd_run_single_agent(args, use_json, start_time); on_path is whether
\* the tool is installed, tool_ok whether runner.run returns
cmd_run_single_agent(args, pfile, on_path, tool_ok) ==
    IF Truthy(args.file) /\ ~FileExists(args.file)
    THEN Uncaught([type |-> "FileNotFoundError", msg |-> << args.file >>])
    ELSE IF ~Truthy(args.file) /\ ~Truthy(args.input)
    THEN Exited(2, JsonOr(args.json,
                          RunFailureJson(<< "No input provided. Use --input or --file" >>)))
    ELSE LET r == get_cli_runner(pfile, args.runner) IN
         IF ~r.ok
         THEN Handled(r.error, {"ValueError", "RuntimeError", "FileNotFoundError"},
                      args.json, RunFailureJson(r.error.msg), 1)
         ELSE IF ~on_path
         THEN Exited(2, JsonOr(args.json,
                   [success |-> FALSE,
                    error |-> << "Runner '", args.runner,
                                 "' not available (tool not installed)" >>,
                    available_runners |-> Keys(load_profiles(NoCache, pfile).profiles),
                    duration_ms |-> "ms"]))
         ELSE IF ~tool_ok
         THEN Exited(1, JsonOr(args.json,
                               RunFailureJson(<< "Command failed with exit code " >>)))
         ELSE Exited(0, JsonOr(args.json,
                   [success |-> TRUE, output |-> "output",
                    runner |-> args.runner, duration_ms |-> "ms"]))

\* cmd_run(args); crew_ok is whether the crew, once built, runs to its
\* result, built as in decompose_crew
cmd_run(args, filesys, inst, pfile, on_path, crew_ok, built) ==
    IF Truthy(args.runner)
    THEN cmd_run_single_agent(args, pfile, on_path, crew_ok)
    ELSE IF ~Truthy(args.package) \/ ~Truthy(args.crew)
    THEN Exited(2, JsonOr(args.json,
              RunFailureJson(<< "Package and crew are required for multi-agent execution. ",
                                "Use --runner for single-agent tasks." >>)))
    ELSE IF Truthy(args.file) /\ ~FileExists(args.file)
    THEN Uncaught([type |-> "FileNotFoundError", msg |-> << args.file >>])
    ELSE LET packages == discover_packages(filesys, NoneV) IN
         IF args.package \notin DOMAIN packages
         THEN Exited(2, JsonOr(args.json,
                   [success |-> FALSE,
                    error |-> << "Package '", args.package, "' not found" >>,
                    available_packages |-> PackageNames(packages),
                    duration_ms |-> "ms"]))
         ELSE LET c == get_crew_config(filesys, packages[args.package], args.crew)
                  caught == {"ValueError", "RuntimeError"}
              IN IF ~c.ok
                 THEN Handled(c.error, caught, args.json,
                              RunFailureJson(c.error.msg), 1)
                 ELSE LET required == IF "required_framework" \in DOMAIN c.value
                                      THEN c.value.required_framework ELSE NoneV
                          requested == IF args.framework # "auto"
                                       THEN args.framework ELSE NoneV
                          named == PyOr(required, requested)
                          d == IF Truthy(named)
                               THEN [ok |-> TRUE, value |-> named, error |-> NoError]
                               ELSE detect_framework(inst, NoneV)
                          r == decompose_crew(inst, required, requested, built)
                      IN IF ~d.ok
                         THEN Handled(d.error, caught, args.json,
                                      RunFailureJson(d.error.msg), 1)
                         ELSE IF ~r.ok
                         THEN Handled(r.error, caught, args.json,
                                      RunFailureJson(r.error.msg), 1)
                         ELSE IF ~crew_ok
                         THEN Exited(1, JsonOr(args.json,
                                   RunFailureJson(<< "crew execution failed" >>)))
                         ELSE Exited(0, JsonOr(args.json,
                                   [success |-> TRUE, output |-> "output",
                                    framework_used |-> d.value,
                                    duration_ms |-> "ms"]))

\* cmd_info(args); json.dumps raises TypeError for a Path in
\* knowledge_paths
cmd_info(args, filesys) ==
    LET packages == discover_packages(filesys, NoneV) IN
    IF args.package \notin DOMAIN packages
    THEN Exited(2, JsonOr(args.json,
              [error |-> << "Package '", args.package, "' not found" >>,
               available_packages |-> PackageNames(packages)]))
    ELSE LET c == get_crew_config(filesys, packages[args.package], args.crew) IN
         IF ~c.ok
         THEN Handled(c.error, {"ValueError"}, args.json,
                      [error |-> c.error.msg], 2)
         ELSE IF args.json /\ c.value.knowledge_paths # << >>
         THEN Uncaught([type |-> "TypeError",
                        msg |-> << "is not JSON serializable" >>])
         ELSE Exited(0, JsonOr(args.json,
                   [package |-> args.package, name |-> args.crew,
                    description |-> c.value.description,
                    required_framework |->
                        IF "required_framework" \in DOMAIN c.value
                        THEN c.value.required_framework ELSE NoneV,
                    agents |-> c.value.agents, tasks |-> c.value.tasks,
                    knowledge_paths |-> c.value.knowledge_paths]))

\* cmd_list_runners(args): get_available_cli_runners() is the list of the
\* profile names
cmd_list_runners(args, pfile) ==
    LET r == load_profiles(NoCache, pfile) IN
    IF ~r.ok
    THEN Handled(r.error, {"FileNotFoundError"}, args.json,
                 [error |-> r.error.msg], 2)
    ELSE Exited(0, JsonOr(args.json, [runners |-> Keys(r.profiles)]))

\* the arguments argparse gives cmd_run, cmd_info and cmd_list_runners
RunArgSpace ==
    [runner : {NoneV, "aider", "unknown-tool"},
     package : {NoneV, "hybrid", "nowhere"},
     crew : {NoneV, "test_crew", "missing_crew"},
     input : {NoneV, "Create design"},
     file : {NoneV} \cup InputFiles,
     framework : {"auto", "langgraph"},
     json : BOOLEAN]
InfoArgSpace ==
    [package : {"hybrid", "nowhere"},
     crew : {"test_crew", "other_crew", "missing_crew"},
     json : BOOLEAN]

\* the workspaces the commands are run in
CliFs == MgrFs \cup {NoFs}

\* agentic-crew run ...: main() parses the arguments and calls cmd_run;
\* the process ends with the exit code of sys.exit, with 0 when cmd_run
\* returns
CmdRunCall(args, on_path, crew_ok, built) ==
    /\ last = NoCall
    /\ LET r == cmd_run(args, fs, installed, profiles_file, on_path, crew_ok, built)
       IN last' = Call("cmd_run",
                       [args |-> args, on_path |-> on_path, ok |-> crew_ok,
                        built |-> built],
                       "exited", r, NoError, FALSE)
    /\ UNCHANGED << cli_vars, crew_vars >>

\* agentic-crew info <package> <crew>
CmdInfoCall(args) ==
    /\ last = NoCall
    /\ last' = Call("cmd_info", [args |-> args], "exited",
                    cmd_info(args, fs), NoError, FALSE)
    /\ UNCHANGED << cli_vars, crew_vars >>

\* agentic-crew list-runners
CmdListRunnersCall(use_json) ==
    /\ last = NoCall
    /\ last' = Call("cmd_list_runners", [args |-> [json |-> use_json]], "exited",
                    cmd_list_runners([json |-> use_json], profiles_file),
                    NoError, FALSE)
    /\ UNCHANGED << cli_vars, crew_vars >>

CliInit ==
    /\ environ = {OtherEnvName}
    /\ profiles_file \in FileStates
    /\ profiles_cache = NoCache
    /\ runner = NoRunner
    /\ pc = "idle"
    /\ procs = << >>
    /\ last = NoCall
    /\ fs \in CliFs
    /\ installed \in {Frameworks, {}}
    /\ mgr = NoManager
    /\ threads = << >>
    /\ gather = NoGather
    /\ crawl = NoCrawl

CliNext ==
    \/ \E args \in RunArgSpace, on_path \in BOOLEAN, crew_ok \in BOOLEAN,
          built \in BOOLEAN :
          CmdRunCall(args, on_path, crew_ok, built)
    \/ \E args \in InfoArgSpace : CmdInfoCall(args)
    \/ \E use_json \in BOOLEAN : CmdListRunnersCall(use_json)

\* processes of the command line, each in a workspace, with some frameworks
\* installed and some profiles file; a process runs one command and ends
CliSpec == CliInit /\ [][CliNext]_vars

\* the latest command is a run whose --file, if given, is there
RanCommand == last.op = "cmd_run" /\
              (Truthy(last.args.args.file) => FileExists(last.args.args.file))

\* the configuration and not-found errors of a run, from its arguments and
\* what it was run on
RunConfigError ==
    LET a == last.args.args
        packages == discover_packages(fs, NoneV)
        profiles == load_profiles(NoCache, profiles_file)
    IN IF Truthy(a.runner)
       THEN \/ ~Truthy(a.file) /\ ~Truthy(a.input)
            \/ profiles.ok /\ ~HasKey(profiles.profiles, a.runner)
            \/ profiles.ok /\ HasKey(profiles.profiles, a.runner)
                 /\ ~last.args.on_path
       ELSE \/ ~Truthy(a.package) \/ ~Truthy(a.crew)
            \/ a.package \notin DOMAIN packages
            \/ a.package \in DOMAIN packages
                 /\ ~HasCrew(fs, packages[a.package], a.crew)

\* C24: the run command exits with 2 for every configuration or not-found
\* error (missing package or crew argument, unknown package, unknown crew
\* in a known package, unknown runner profile, runner tool not installed,
\* no input for a single-agent run), so with 1 only for another failure,
\* and with 0 only when the run succeeded
C24_RunExitCodes ==
    RanCommand =>
        /\ RunConfigError => last.value.exit = 2
        /\ last.value.exit = 0 =>
              /\ ~RunConfigError
              /\ last.args.ok
              /\ ~last.value.traceback

\* the failure paths of the commands with --json
FailedWithJson ==
    /\ last.op \in {"cmd_run", "cmd_info", "cmd_list_runners"}
    /\ last.args.args.json
    /\ last.value.exit # 0

\* C25: when JSON output is requested and run, info or list-runners
\* fails, the JSON object printed has a success field that is false and an
\* error field
C25_JsonFailureObject ==
    FailedWithJson =>
        /\ "success" \in DOMAIN last.value.json
        /\ last.value.json.success = FALSE
        /\ "error" \in DOMAIN last.value.json


(***************************************************************************)
(* CrawlWebsiteTool._run (tools/scraping_tools.py): the crawl of a site,   *)
(* one step per turn of its while loop.                                    *)
(***************************************************************************)
\* the most links the pages of the web have together
MaxLinks == 4

BaseHost == "docs.example.com"

OtherHost == "elsewhere.example.org"

\* the pages of the site
Paths == {"/", "/guide", "/api"}

Url(netloc, path) == [netloc |-> netloc, path |-> path]

\* href values: references relative to the page, and an absolute one that
\* points to another host
Hrefs ==
    {[netloc |-> NoneV, path |-> p] : p \in Paths} \cup {Url(OtherHost, "/")}

\* what the pages of the site can link to, in the order of each document:
\* every way to place up to MaxLinks links on the pages
Webs ==
    {[p \in Paths |->
         LET on_page == SelectSeq(links, LAMBDA link : link[1] = p)
         IN [i \in DOMAIN on_page |-> on_page[i][2]]] :
        links \in SeqsUpTo(Paths \X Hrefs, MaxLinks)}

\* the readable text of a page, as _scrape_content returns it
PageText(path) ==
    CASE path = "/" -> "Home"
      [] path = "/guide" -> "Guide"
      [] OTHER -> "Reference"

\* urlparse(url).netloc
netloc(url) == url.netloc

\* urljoin(current_url, href): an absolute reference replaces the base, a
\* relative one keeps the base's host
urljoin(base, href) ==
    IF href.netloc = NoneV THEN Url(base.netloc, href.path)
    ELSE Url(href.netloc, href.path)

\* the for loop over the links of a page: the URLs it appends to the queue
NextUrls(current_url, links, base_netloc, visited_urls) ==
    LET next_urls == [i \in DOMAIN links |-> urljoin(current_url, links[i])]
        Queued(next_url) == /\ netloc(next_url) = base_netloc
                            /\ next_url \notin visited_urls
    IN SelectSeq(next_urls, Queued)

\* _run(url) begins: the locals before the loop
CrawlStart(url) ==
    /\ crawl.pc = "idle"
    /\ crawl' = [crawl EXCEPT !.pc = "loop",
                              !.url = url,
                              !.base_netloc = netloc(url),
                              !.urls_to_visit = << url >>,
                              !.visited_urls = {},
                              !.scraped_content = << >>]
    /\ UNCHANGED << cli_vars, last, fs, installed, mgr, threads, gather >>

\* the URL popped from the queue was visited already: continue
CrawlSkip ==
    /\ crawl.pc = "loop"
    /\ crawl.urls_to_visit # << >>
    /\ Head(crawl.urls_to_visit) \in crawl.visited_urls
    /\ crawl' = [crawl EXCEPT !.urls_to_visit = Tail(@)]
    /\ UNCHANGED << cli_vars, last, fs, installed, mgr, threads, gather >>

\* an exception of the request that is not caught would go here
CrawlFailsRaising ==
    /\ crawl.pc = "loop"
    /\ crawl.urls_to_visit # << >>
    /\ Head(crawl.urls_to_visit) \notin crawl.visited_urls
    /\ crawl' = [crawl EXCEPT
           !.pc = "raised",
           !.urls_to_visit = Tail(@),
           !.requests = Append(@, [url |-> Head(crawl.urls_to_visit),
                                   ok |-> FALSE])]
    /\ UNCHANGED << cli_vars, last, fs, installed, mgr, threads, gather >>

\* the request of the popped URL raises a RequestException: the error is
\* logged and the loop goes on; the URL is not added to visited_urls
CrawlFails ==
    /\ crawl.pc = "loop"
    /\ crawl.urls_to_visit # << >>
    /\ Head(crawl.urls_to_visit) \notin crawl.visited_urls
    /\ crawl' = [crawl EXCEPT
           !.urls_to_visit = Tail(@),
           !.requests = Append(@, [url |-> Head(crawl.urls_to_visit),
                                   ok |-> FALSE]),
           !.errors = Append(@, Head(crawl.urls_to_visit))]
    /\ UNCHANGED << cli_vars, last, fs, installed, mgr, threads, gather >>

\* the request of the popped URL succeeds: the page is marked visited, its
\* text is added and its same-host links that are not visited are queued
CrawlFetches ==
    /\ crawl.pc = "loop"
    /\ crawl.urls_to_visit # << >>
    /\ LET current_url == Head(crawl.urls_to_visit)
           visited == crawl.visited_urls \cup {current_url}
       IN /\ current_url \notin crawl.visited_urls
          /\ crawl' = [crawl EXCEPT
                 !.requests = Append(@, [url |-> current_url, ok |-> TRUE]),
                 !.visited_urls = visited,
                 !.scraped_content = Append(@, PageText(current_url.path)),
                 !.urls_to_visit =
                     Tail(@) \o NextUrls(current_url,
                                         crawl.web[current_url.path],
                                         crawl.base_netloc, visited)]
    /\ UNCHANGED << cli_vars, last, fs, installed, mgr, threads, gather >>

\* the queue is empty: _run returns the text collected
CrawlReturns ==
    /\ crawl.pc = "loop"
    /\ crawl.urls_to_visit = << >>
    /\ crawl' = [crawl EXCEPT !.pc = "returned",
                              !.value = crawl.scraped_content]
    /\ UNCHANGED << cli_vars, last, fs, installed, mgr, threads, gather >>

CrawlInit ==
    /\ environ = {OtherEnvName}
    /\ profiles_file = "absent"
    /\ profiles_cache = NoCache
    /\ runner = NoRunner
    /\ pc = "idle"
    /\ procs = << >>
    /\ last = NoCall
    /\ fs = NoFs
    /\ installed = {}
    /\ mgr = NoManager
    /\ threads = << >>
    /\ gather = NoGather
    /\ crawl \in {[NoCrawl EXCEPT !.web = web] : web \in Webs}

\* a turn of the while loop
CrawlStep ==
    \/ CrawlSkip
    \/ CrawlFetches
    \/ CrawlFails
    \/ CrawlReturns

CrawlNext ==
    \/ CrawlStart(Url(BaseHost, "/"))
    \/ CrawlStep

CrawlSpec == CrawlInit /\ [][CrawlNext]_vars

\* the interpreter keeps running the loop of a call that has begun
CrawlLiveSpec == CrawlSpec /\ WF_vars(CrawlStep)

\* the same-host URLs that links lead to from the URLs of a set
LinkedFrom(web, urls) ==
    {next_url \in UNION {{urljoin(u, web[u.path][i]) :
                             i \in DOMAIN web[u.path]} : u \in urls} :
        netloc(next_url) = BaseHost}

RECURSIVE ReachableFrom(_, _)
\* the same-host URLs reachable from the URLs of a set, these included
ReachableFrom(web, urls) ==
    IF LinkedFrom(web, urls) \subseteq urls THEN urls
    ELSE ReachableFrom(web, urls \cup LinkedFrom(web, urls))

FetchedText ==
    LET fetched == SelectSeq(crawl.requests, LAMBDA r : r.ok)
    IN [i \in DOMAIN fetched |-> PageText(fetched[i].url.path)]

\* the URLs whose request failed, in the order of the requests
FailedUrls ==
    LET failed == SelectSeq(crawl.requests, LAMBDA r : ~r.ok)
    IN [i \in DOMAIN failed |-> failed[i].url]

FailuresSkipped ==
    /\ crawl.pc # "raised"
    /\ crawl.errors = FailedUrls
    /\ crawl.pc = "returned" => crawl.value = FetchedText

\* C27: for every web of pages and links and every choice of failing
\* requests, a crawl that has begun returns; every failed request is
\* logged, none ends the crawl, and the text returned is the text of every
\* page fetched, before or after a failure
C27_TerminatesKeepingContent ==
    /\ []FailuresSkipped
    /\ (crawl.pc = "loop") ~> (crawl.pc = "returned")

\* a crawl returned the text of a page fetched before a failed request and
\* of a page fetched after it
C27_Witness ==
    /\ crawl.pc = "returned"
    /\ \E i, j, k \in DOMAIN crawl.requests :
          /\ i < j /\ j < k
          /\ crawl.requests[i].ok
          /\ ~crawl.requests[j].ok
          /\ crawl.requests[k].ok
          /\ crawl.requests[i].url # crawl.requests[k].url
    /\ Len(crawl.value) >= 2

=============================================================================
